---- MODULE Spec2Model ----
(***************************************************************************)
(* A model of the persistence core of mcp-agent-system:                    *)
(*   - the migration engine (services/database/migration-manager.ts),      *)
(*   - the transaction combinator and the bulk operations of the generic   *)
(*     repository (services/database/sqlite/base-repository.ts) on top of  *)
(*     the single SQLite connection (sqlite/connection.ts).                *)
(***************************************************************************)
EXTENDS Integers, Sequences, FiniteSets, TLC

VARIABLES
    \* ---- migration engine ----
    disk,         \* the migration files in migrationsPath (the environment)
    tableExists,  \* whether the `migrations` table has been created
    ledger,       \* rows of the `migrations` table, in insertion (applied_at) order
    migrations,   \* MigrationManager.migrations (set by loadMigrations)
    pc,           \* where the in-flight MigrationManager call stands
    queue,        \* the rest of pendingMigrations / migrationsToRollback
    ret,          \* the running call, or how the last call ended
    events,       \* what the running (or last) call did, in order
    ledger0,      \* the ledger when the running (or last) call started
    call,         \* the running (or last) call's targetId, and `settled` at its start
    settled,      \* last finished call was a successful migrateUp, disk untouched since
    inEffect,     \* the units whose up has completed and whose down has not since
    keeping,      \* whether inEffect is kept
    \* ---- connection and generic repository ----
    pkKind,       \* the table's primary key: "integer" (the rowid) or "text"
    table,        \* the rows the connection reads: rowid -> [id, val]
    committed,    \* the rows that are durable (as of the last COMMIT)
    inTx,         \* whether SQLite has a transaction open on the connection
    tpc,          \* where the in-flight repository call stands
    tcall,        \* the in-flight (or last) repository call: op and items
    tidx,         \* the index of the item the callback's loop is at
    tacc,         \* the entities the callback has collected so far
    terr,         \* the error caught by transaction(), if any
    tret,         \* how the last repository call ended
    stmts,        \* the statements the call has issued, with their outcomes
    table0,       \* the table when the call started
    issued,       \* how often create() has returned each id: 0, 1, or 2 for more
    \* ---- task repository and task service ----
    clock,        \* the current time (new Date())
    store,        \* the rows of the tasks table
    spc,          \* where the in-flight task call stands
    scall,        \* the in-flight (or last) task call and its arguments
    sret,         \* how the last task call ended
    store0,       \* the tasks table when the call started
    updates,      \* the taskRepository.update calls the service made, in order
    sqls,         \* the statements the task repository issued, in order
    calls,        \* the taskRepository methods the call has invoked, in order
    \* ---- SQLiteConnection ----
    isOpen,       \* SQLiteConnection.isOpen
    db,           \* SQLiteConnection.db: "null", "undefined" or "handle"
    live,         \* the sqlite3.Database handles created and not closed
    pragmas,      \* the PRAGMA statements that have been executed
    frames,       \* the pending calls of the connection's methods, innermost last
    signal,       \* the settlement being delivered to the innermost pending call
    cpc,          \* where the caller of the connection stands
    ccall,        \* the method the caller has called
    cret,         \* how that call ended
    envFailed,    \* the environment made a step of the call fail
    \* ---- update(id, entity) among other callers of the connection ----
    urows,        \* the rows of the table
    upc,          \* where the in-flight update call stands
    ucall,        \* the in-flight (or last) update call: id and entity
    uret,         \* how the last update call ended
    ustmts,       \* the statements the update call has issued, in order
    \* ---- MemoryRepository.findSimilar ----
    memories,     \* the rows of the memories table, in rowid order
    fpc,          \* where the findSimilar call stands
    fcall,        \* the arguments of the (last) findSimilar call
    fret,         \* what the (last) findSimilar call returned
    \* ---- entityToRow / rowToEntity of the entity repositories ----
    rnow,         \* the current time (new Date())
    rpc,          \* how far the conversion has gone: idle, row, entity
    rkind,        \* the repository converting
    rentity,      \* the entity given to entityToRow
    rrow,         \* the row entityToRow made of it
    rback,        \* the entity rowToEntity made of that row
    \* ---- NotificationRepository.markAs ----
    nstore,       \* the notifications table: id -> status and statusHistory
    npc,          \* where the markAs call stands
    ncall,        \* the arguments of the (last) markAs call
    nret,         \* how the (last) markAs call ended
    \* ---- transaction(callback) called from within a callback ----
    xstack,       \* the pending calls of transaction(), innermost last
    xopen,        \* whether SQLite has a transaction open on the connection
    xrows,        \* the number of rows the connection reads
    xdurable,     \* the number of rows that are durable
    xlog,         \* the statements the call has issued, with their outcomes
    xret,         \* how the outermost call ended
    \* ---- findAll and findOne of the base repository ----
    qrows,        \* the rows of the table, in rowid order
    qpc,          \* idle, or done when a call has returned
    qcall,        \* the call: its operation and its filter
    qsql,         \* the statement sent: its clauses and its bound parameters
    qret,         \* the rows the call returned
    \* ---- recordAccess of the memory repository, calls interleaved ----
    astore,       \* the memories table: per id, whether the row exists and its counters
    aproc,        \* per call: where it stands, its id, the memory it read, its outcome
    asettled,     \* per id, the calls that found the memory and have settled
    \* ---- transaction(fn) calls interleaved on the shared connection ----
    ipc,          \* per call: idle, begin, body, commit, rollback or done
    iopen,        \* whether the connection has a transaction open
    ipending,     \* the rows written in the open transaction
    idurable,     \* the rows that are persisted
    iwrote,       \* per call, the rows its fn has written
    ifn,          \* per call, how its fn ended
    iret,         \* per call, how it ended
    ialone,       \* per call, whether no other call was in flight with it
    \* ---- updateStatus calls running together on one task ----
    kstatus,      \* the stored status of the task
    kcall,        \* per call: where it stands, the status asked for, the status it read
    ktrail        \* the statuses stored for the task, in the order they were stored

migVars == <<disk, tableExists, ledger, migrations, pc, queue, ret,
             events, ledger0, call, settled, inEffect, keeping>>

txVars == <<pkKind, table, committed, inTx, tpc, tcall, tidx, tacc, terr, tret,
            stmts, table0, issued>>

taskVars == <<clock, store, spc, scall, sret, store0, updates, sqls, calls>>

connVars == <<isOpen, db, live, pragmas, frames, signal, cpc, ccall, cret, envFailed>>

updVars == <<urows, upc, ucall, uret, ustmts>>

simVars == <<memories, fpc, fcall, fret>>

roundVars == <<rnow, rpc, rkind, rentity, rrow, rback>>

markVars == <<nstore, npc, ncall, nret>>

nestVars == <<xstack, xopen, xrows, xdurable, xlog, xret>>

queryVars == <<qrows, qpc, qcall, qsql, qret>>

accessVars == <<astore, aproc, asettled>>

pairVars == <<ipc, iopen, ipending, idurable, iwrote, ifn, iret, ialone>>

raceVars == <<kstatus, kcall, ktrail>>

vars == <<migVars, txVars, taskVars, connVars, updVars, simVars, roundVars, markVars, nestVars, queryVars, accessVars, pairVars, raceVars>>

\* what the calls of one component leave alone
notMigVars == <<txVars, taskVars, connVars, updVars, simVars, roundVars, markVars, nestVars, queryVars, accessVars, pairVars, raceVars>>

notTxVars == <<migVars, taskVars, connVars, updVars, simVars, roundVars, markVars, nestVars, queryVars, accessVars, pairVars, raceVars>>

notTaskVars == <<migVars, txVars, connVars, updVars, simVars, roundVars, markVars, nestVars, queryVars, accessVars, pairVars, raceVars>>

notConnVars == <<migVars, txVars, taskVars, updVars, simVars, roundVars, markVars, nestVars, queryVars, accessVars, pairVars, raceVars>>

notUpdVars == <<migVars, txVars, taskVars, connVars, simVars, roundVars, markVars, nestVars, queryVars, accessVars, pairVars, raceVars>>

notSimVars == <<migVars, txVars, taskVars, connVars, updVars, roundVars, markVars, nestVars, queryVars, accessVars, pairVars, raceVars>>

notRoundVars == <<migVars, txVars, taskVars, connVars, updVars, simVars, markVars, nestVars, queryVars, accessVars, pairVars, raceVars>>

notMarkVars == <<migVars, txVars, taskVars, connVars, updVars, simVars, roundVars, nestVars, queryVars, accessVars, pairVars, raceVars>>

notNestVars == <<migVars, txVars, taskVars, connVars, updVars, simVars, roundVars, markVars, queryVars, accessVars, pairVars, raceVars>>

notQueryVars == <<migVars, txVars, taskVars, connVars, updVars, simVars, roundVars, markVars, nestVars, accessVars, pairVars, raceVars>>

notAccessVars == <<migVars, txVars, taskVars, connVars, updVars, simVars, roundVars, markVars, nestVars, queryVars, pairVars, raceVars>>

notPairVars == <<migVars, txVars, taskVars, connVars, updVars, simVars, roundVars, markVars, nestVars, queryVars, accessVars, raceVars>>

notRaceVars == <<migVars, txVars, taskVars, connVars, updVars, simVars, roundVars, markVars, nestVars, queryVars, accessVars, pairVars>>

(***************************************************************************)
(* Bounds.                                                                 *)
(***************************************************************************)
MaxDigit == 2
MaxRowId == 3
MaxItems == 2
MaxClock == 3
MaxHandles == 3
MaxMemories == 2
MaxHistory == 2
MaxDepth == 2
MaxKeys == 3
MaxFound == 2
MaxCalls == 2
MaxAccesses == 3
MaxInserts == 2
MaxTrail == 4

(***************************************************************************)
(* Migration files.  A filename is <<id, rest>>: the text before the first *)
(* '-' (a string of digits, possibly empty) and the text after it.         *)
(***************************************************************************)
Ids == {<<d>> : d \in 1..MaxDigit} \cup {<<1, 0>>}

EmptyId == <<>>

RestRank(r) == CASE r = "a" -> 1 [] r = "b" -> 2 [] OTHER -> 3

\* file.split('-')[0]
IdOf(filename) == filename[1]

\* The files that may appear in the migrations directory: one well-formed
\* unit per id, a second unit sharing the prefix 1, a unit that exports no
\* down, a unit that exports no up, and a file whose name starts with '-'.
FileUniverse ==
    {[filename |-> <<i, "a">>, hasUp |-> TRUE, hasDown |-> TRUE] : i \in Ids}
    \cup {[filename |-> <<<<1>>, "b">>, hasUp |-> TRUE, hasDown |-> TRUE],
          [filename |-> <<<<2>>, "c">>, hasUp |-> TRUE, hasDown |-> FALSE],
          [filename |-> <<<<1>>, "c">>, hasUp |-> FALSE, hasDown |-> TRUE],
          [filename |-> <<EmptyId, "a">>, hasUp |-> TRUE, hasDown |-> TRUE]}

\* a.localeCompare(b) < 0 on strings of digits, and SQLite's ORDER BY on the
\* same strings: the first differing digit decides, a proper prefix is smaller.
RECURSIVE LexLess(_, _)
LexLess(a, b) ==
    IF b = <<>> THEN FALSE
    ELSE IF a = <<>> THEN TRUE
    ELSE IF Head(a) # Head(b) THEN Head(a) < Head(b)
    ELSE LexLess(Tail(a), Tail(b))

\* Array.prototype.sort() on the filenames (readdirSync(...).sort()).
FileLess(f, g) ==
    \/ LexLess(f[1], g[1])
    \/ f[1] = g[1] /\ RestRank(f[2]) < RestRank(g[2])

RECURSIVE SortFiles(_)
SortFiles(S) ==
    IF S = {} THEN <<>>
    ELSE LET m == CHOOSE x \in S : \A y \in S \ {x} : FileLess(x.filename, y.filename)
         IN <<m>> \o SortFiles(S \ {m})

\* A stable insertion sort of a sequence of records by their id field.
RECURSIVE InsertById(_, _)
InsertById(x, s) ==
    IF s = <<>> THEN <<x>>
    ELSE IF LexLess(x.id, Head(s).id) THEN <<x>> \o s
    ELSE <<Head(s)>> \o InsertById(x, Tail(s))

RECURSIVE SortById(_)
SortById(s) ==
    IF s = <<>> THEN <<>>
    ELSE InsertById(s[Len(s)], SortById(SubSeq(s, 1, Len(s) - 1)))

Range(s) == {s[i] : i \in 1..Len(s)}

Reverse(s) == [i \in 1..Len(s) |-> s[Len(s) + 1 - i]]

\* A loadMigrations that takes every file with an id, whatever it exports.
loadMigrationsUnchecked(d) ==
    LET files  == SortFiles(d)
        Usable(f) == IdOf(f.filename) # EmptyId
        usable == SelectSeq(files, Usable)
        units  == [i \in 1..Len(usable) |->
                     [id |-> IdOf(usable[i].filename), filename |-> usable[i].filename]]
    IN SortById(units)

\* A loadMigrations whose final sort puts the greatest id first.
loadMigrationsDescending(d) ==
    LET files  == SortFiles(d)
        Usable(f) == f.hasUp /\ f.hasDown /\ IdOf(f.filename) # EmptyId
        usable == SelectSeq(files, Usable)
        units  == [i \in 1..Len(usable) |->
                     [id |-> IdOf(usable[i].filename), filename |-> usable[i].filename]]
    IN Reverse(SortById(units))

\* loadMigrations: the files in name order, those without up or down and
\* those with an empty id skipped, then sorted by id.
loadMigrations(d) ==
    LET files  == SortFiles(d)
        Usable(f) == f.hasUp /\ f.hasDown /\ IdOf(f.filename) # EmptyId
        usable == SelectSeq(files, Usable)
        units  == [i \in 1..Len(usable) |->
                     [id |-> IdOf(usable[i].filename), filename |-> usable[i].filename]]
    IN SortById(units)

\* A getAppliedMigrations that reads the first row only (LIMIT 1).
getAppliedFirst(l) == IF l = <<>> THEN <<>> ELSE <<SortById(l)[1]>>

\* getAppliedMigrations: SELECT * FROM migrations ORDER BY id
getAppliedMigrations(l) == SortById(l)

\* A getPendingMigrations that filters nothing out.
getPendingAll(ms, l) == ms

\* getPendingMigrations
getPendingMigrations(ms, l) ==
    LET appliedIds == {r.id : r \in Range(getAppliedMigrations(l))}
        NotApplied(m) == m.id \notin appliedIds
    IN SelectSeq(ms, NotApplied)

(***************************************************************************)
(* The migration engine: MigrationManager.                                 *)
(***************************************************************************)
NoFile == <<>>

\* What a call leaves behind: op, how it ended (st), the unit its error names,
\* and the lists status() returns.
Outcome(op, st, names, applied, pending) ==
    [op |-> op, st |-> st, names |-> names, applied |-> applied, pending |-> pending]

Running(op) == Outcome(op, "running", NoFile, <<>>, <<>>)
Returned(op) == Outcome(op, "ok", NoFile, <<>>, <<>>)
\* a failure of the table creation or of the SELECT: the error names no unit
Threw(op) == Outcome(op, "error", NoFile, <<>>, <<>>)
\* the wrapped error of a failing unit: `マイグレーション ${migration.filename} の...`
ThrewFor(op, filename) == Outcome(op, "error", <<filename>>, <<>>, <<>>)

NoCall == Outcome("none", "ok", NoFile, <<>>, <<>>)

\* targetId: <<>> when omitted, <<id>> when given
Args(target, wasSettled) == [target |-> target, wasSettled |-> wasSettled]

NoArgs == Args(<<>>, FALSE)

Event(ev, id, filename, ok) == [ev |-> ev, id |-> id, filename |-> filename, ok |-> ok]

MigStart(kept) ==
    /\ disk = {}
    /\ tableExists = FALSE
    /\ ledger = <<>>
    /\ migrations = <<>>
    /\ pc = "idle"
    /\ queue = <<>>
    /\ ret = NoCall
    /\ events = <<>>
    /\ ledger0 = <<>>
    /\ call = NoArgs
    /\ settled = FALSE
    /\ inEffect = {}
    /\ keeping = kept

\* no history of the units in effect is kept
MigInit == MigStart(FALSE)

\* The environment: a migration file is written to the directory.
AddFile ==
    /\ pc = "idle"
    /\ \E f \in FileUniverse \ disk : disk' = disk \cup {f}
    /\ settled' = FALSE
    /\ UNCHANGED <<tableExists, ledger, migrations, pc, queue, ret, events, ledger0, call>>
    /\ UNCHANGED notMigVars
    /\ UNCHANGED <<inEffect, keeping>>

\* The environment: a migration file is deleted from the directory.
RemoveFile ==
    /\ pc = "idle"
    /\ \E f \in disk : disk' = disk \ {f}
    /\ settled' = FALSE
    /\ UNCHANGED <<tableExists, ledger, migrations, pc, queue, ret, events, ledger0, call>>
    /\ UNCHANGED notMigVars
    /\ UNCHANGED <<inEffect, keeping>>

\* A call ends: the promise settles with outcome o.
Finish(o) ==
    /\ pc' = "done"
    /\ queue' = <<>>
    /\ ret' = o
    /\ settled' = (o.op = "migrateUp" /\ o.st = "ok")

\* Which statement, if any, fails before the loop of a call: the CREATE TABLE
\* of initMigrationTable, or the SELECT of getAppliedMigrations.
StartFailures == {"none", "init", "select"}

\* migrateUp, up to the loop: initMigrationTable, loadMigrations,
\* getPendingMigrations; either statement may fail.
MigrateUpStart ==
    /\ pc = "idle"
    /\ events' = <<>>
    /\ ledger0' = ledger
    /\ call' = Args(<<>>, settled)
    /\ UNCHANGED <<disk, ledger>>
    /\ \E fails \in StartFailures :
        /\ tableExists' = (tableExists \/ fails # "init")
        /\ IF fails = "init"
           THEN /\ migrations' = migrations
                /\ Finish(Threw("migrateUp"))
           ELSE /\ migrations' = loadMigrations(disk)
                /\ IF fails = "select"
                   THEN Finish(Threw("migrateUp"))
                   ELSE LET pendingMigrations == getPendingMigrations(migrations', ledger)
                        IN IF pendingMigrations = <<>>
                           THEN Finish(Returned("migrateUp"))
                           ELSE /\ pc' = "up"
                                /\ queue' = pendingMigrations
                                /\ ret' = Running("migrateUp")
                                /\ settled' = settled
    /\ UNCHANGED notMigVars
    /\ UNCHANGED <<inEffect, keeping>>

\* what migrateUp does after a unit has been recorded
AfterRecord(rest) ==
    IF rest = <<>>
    THEN Finish(Returned("migrateUp"))
    ELSE /\ pc' = "up"
         /\ queue' = rest
         /\ UNCHANGED <<ret, settled>>

\* A catch block of migrateUp that swallows the error and goes on.
UpCatchSwallow(migration) == AfterRecord(Tail(queue))

\* what migrateUp does when up() or recordMigration throws
UpCatch(migration) == Finish(ThrewFor("migrateUp", migration.filename))

\* await migration.up()
UpRun ==
    /\ pc = "up"
    /\ LET migration == Head(queue)
       IN \E ok \in BOOLEAN :
            /\ events' = Append(events, Event("up", migration.id, migration.filename, ok))
            /\ IF ok
               THEN /\ pc' = "record"
                    /\ inEffect' = IF keeping THEN inEffect \cup {migration.filename} ELSE inEffect
                    /\ UNCHANGED <<queue, ret, settled>>
               ELSE /\ UpCatch(migration)
                    /\ UNCHANGED inEffect
    /\ UNCHANGED <<disk, tableExists, ledger, migrations, ledger0, call>>
    /\ UNCHANGED notMigVars
    /\ UNCHANGED keeping

\* INSERT INTO migrations (id, filename): id is the PRIMARY KEY.
InsertAllowed(l, id) == id \notin {r.id : r \in Range(l)}

\* await this.recordMigration(migration)
RecordRun ==
    /\ pc = "record"
    /\ LET migration == Head(queue)
       IN \E ioOk \in BOOLEAN :
            LET ok == ioOk /\ InsertAllowed(ledger, migration.id)
            IN /\ events' = Append(events, Event("record", migration.id, migration.filename, ok))
               /\ IF ok
                  THEN /\ ledger' = Append(ledger, [id |-> migration.id, filename |-> migration.filename])
                       /\ AfterRecord(Tail(queue))
                  ELSE /\ ledger' = ledger
                       /\ UpCatch(migration)
    /\ UNCHANGED <<disk, tableExists, migrations, ledger0, call>>
    /\ UNCHANGED notMigVars
    /\ UNCHANGED <<inEffect, keeping>>

\* The targetId argument of migrateDown: <<>> when omitted, <<id>> when given.
Targets == {<<>>} \cup {<<i>> : i \in Ids \cup {EmptyId}}

\* `if (targetId)`: an omitted argument and the empty string are both falsy.
Truthy(target) == target # <<>> /\ target[1] # EmptyId

\* appliedMigrations.findIndex(m => m.id === targetId), 0 standing for -1
findIndex(applied, id) ==
    IF \E i \in 1..Len(applied) : applied[i].id = id
    THEN CHOOSE i \in 1..Len(applied) :
            /\ applied[i].id = id
            /\ \A j \in 1..(i - 1) : applied[j].id # id
    ELSE 0

\* this.migrations.find(m => m.id === record.id), <<>> standing for undefined
find(ms, id) ==
    LET i == findIndex(ms, id)
    IN IF i = 0 THEN <<>> ELSE <<ms[i]>>

\* A migrateDown that forgets the reverse() of the slice.
migrationsToRollbackAscending(applied, target) ==
    IF Truthy(target)
    THEN SubSeq(applied, findIndex(applied, target[1]) + 1, Len(applied))
    ELSE <<applied[Len(applied)]>>

\* the records migrateDown chooses to roll back, given a known target or none
migrationsToRollback(applied, target) ==
    IF Truthy(target)
    THEN Reverse(SubSeq(applied, findIndex(applied, target[1]) + 1, Len(applied)))
    ELSE <<applied[Len(applied)]>>

\* what migrateDown does when the target is not among the applied ids:
\* logger.error(...) and return
UnknownTarget == Finish(Returned("migrateDown"))

\* migrateDown(targetId), up to the loop.
MigrateDownStart ==
    /\ pc = "idle"
    /\ events' = <<>>
    /\ ledger0' = ledger
    /\ UNCHANGED <<disk, ledger>>
    /\ \E target \in Targets, fails \in StartFailures :
        /\ call' = Args(target, settled)
        /\ tableExists' = (tableExists \/ fails # "init")
        /\ IF fails = "init"
           THEN /\ migrations' = migrations
                /\ Finish(Threw("migrateDown"))
           ELSE /\ migrations' = loadMigrations(disk)
                /\ IF fails = "select"
                   THEN Finish(Threw("migrateDown"))
                   ELSE LET appliedMigrations == getAppliedMigrations(ledger)
                        IN IF appliedMigrations = <<>>
                           THEN Finish(Returned("migrateDown"))
                           ELSE IF Truthy(target) /\ findIndex(appliedMigrations, target[1]) = 0
                           THEN UnknownTarget
                           ELSE LET toRollback == migrationsToRollback(appliedMigrations, target)
                                IN IF toRollback = <<>>
                                   THEN Finish(Returned("migrateDown"))
                                   ELSE /\ pc' = "down"
                                        /\ queue' = toRollback
                                        /\ ret' = Running("migrateDown")
                                        /\ settled' = FALSE
    /\ UNCHANGED notMigVars
    /\ UNCHANGED <<inEffect, keeping>>

\* the loop of migrateDown moves on to the next record, or returns
AfterRollback(rest) ==
    IF rest = <<>>
    THEN Finish(Returned("migrateDown"))
    ELSE /\ pc' = "down"
         /\ queue' = rest
         /\ UNCHANGED <<ret, settled>>

\* A catch block of migrateDown that swallows the error and goes on.
DownCatchContinue(migration, rest) == AfterRollback(rest)

\* what migrateDown does when down() or removeMigrationRecord throws
DownCatch(migration, rest) == Finish(ThrewFor("migrateDown", migration.filename))

\* One turn of the rollback loop for a record whose unit is no longer
\* discovered: logger.warn(...) and continue.
DownSkip ==
    /\ pc = "down"
    /\ LET record == Head(queue)
       IN /\ find(migrations, record.id) = <<>>
          /\ events' = Append(events, Event("skip", record.id, record.filename, TRUE))
          /\ AfterRollback(Tail(queue))
    /\ UNCHANGED <<disk, tableExists, ledger, migrations, ledger0, call>>
    /\ UNCHANGED notMigVars
    /\ UNCHANGED <<inEffect, keeping>>

\* await migration.down()
DownRun ==
    /\ pc = "down"
    /\ find(migrations, Head(queue).id) # <<>>
    /\ LET migration == find(migrations, Head(queue).id)[1]
       IN \E ok \in BOOLEAN :
            /\ events' = Append(events, Event("down", migration.id, migration.filename, ok))
            /\ IF ok
               THEN /\ pc' = "remove"
                    /\ inEffect' = IF keeping THEN inEffect \ {migration.filename} ELSE inEffect
                    /\ UNCHANGED <<queue, ret, settled>>
               ELSE /\ DownCatch(migration, Tail(queue))
                    /\ UNCHANGED inEffect
    /\ UNCHANGED <<disk, tableExists, ledger, migrations, ledger0, call>>
    /\ UNCHANGED notMigVars
    /\ UNCHANGED keeping

\* DELETE FROM migrations WHERE id = ?
DeleteRow(l, id) ==
    LET Other(r) == r.id # id
    IN SelectSeq(l, Other)

\* await this.removeMigrationRecord(migration.id)
RemoveRun ==
    /\ pc = "remove"
    /\ LET migration == find(migrations, Head(queue).id)[1]
       IN \E ok \in BOOLEAN :
            /\ events' = Append(events, Event("remove", migration.id, migration.filename, ok))
            /\ IF ok
               THEN /\ ledger' = DeleteRow(ledger, migration.id)
                    /\ AfterRollback(Tail(queue))
               ELSE /\ ledger' = ledger
                    /\ DownCatch(migration, Tail(queue))
    /\ UNCHANGED <<disk, tableExists, migrations, ledger0, call>>
    /\ UNCHANGED notMigVars
    /\ UNCHANGED <<inEffect, keeping>>

\* status(): initMigrationTable, loadMigrations, getAppliedMigrations,
\* getPendingMigrations (which reads the ledger again).
Status ==
    /\ pc = "idle"
    /\ \E fails \in StartFailures :
        /\ tableExists' = (tableExists \/ fails # "init")
        /\ migrations' = IF fails = "init" THEN migrations ELSE loadMigrations(disk)
        /\ ret' = IF fails = "none"
                  THEN Outcome("status", "ok", NoFile, getAppliedMigrations(ledger),
                               getPendingMigrations(migrations', ledger))
                  ELSE Threw("status")
    /\ pc' = "done"
    /\ events' = <<>>
    /\ ledger0' = ledger
    /\ call' = Args(<<>>, settled)
    /\ UNCHANGED <<disk, ledger, queue, settled>>
    /\ UNCHANGED notMigVars
    /\ UNCHANGED <<inEffect, keeping>>

\* The caller has received the outcome of the call; the manager is idle again.
Return ==
    /\ pc = "done"
    /\ pc' = "idle"
    /\ ret' = NoCall
    /\ events' = <<>>
    /\ ledger0' = <<>>
    /\ call' = NoArgs
    /\ migrations' = <<>>
    /\ UNCHANGED <<disk, tableExists, ledger, queue, settled>>
    /\ UNCHANGED notMigVars
    /\ UNCHANGED <<inEffect, keeping>>

MigNext ==
    \/ AddFile
    \/ RemoveFile
    \/ MigrateUpStart
    \/ UpRun
    \/ RecordRun
    \/ MigrateDownStart
    \/ DownSkip
    \/ DownRun
    \/ RemoveRun
    \/ Status
    \/ Return

(***************************************************************************)
(* The connection (SQLiteConnection) and the generic repository            *)
(* (BaseSQLiteRepository) over one table with a data column val.           *)
(***************************************************************************)
\* SQL NULL in a column, undefined in an entity field
Null == 0

RowIds == 1..MaxRowId

\* the values callers create rows with, and the values they update them to
CreateVals == {1}
UpdateVals == {Null, 2}

Row(rowid, id, val) == [rowid |-> rowid, id |-> id, val |-> val]

Err(src, at) == [src |-> src, at |-> at]

NoErr == Err("none", 0)

TxOutcome(st, value, error) == [st |-> st, value |-> value, error |-> error]

NoOutcome == TxOutcome("none", <<>>, NoErr)

TxInit(kind) ==
    /\ pkKind = kind
    /\ table = {}
    /\ committed = {}
    /\ inTx = FALSE
    /\ tpc = "idle"
    /\ tcall = [op |-> "none", items |-> <<>>, ids |-> {}]
    /\ tidx = 0
    /\ tacc = <<>>
    /\ terr = NoErr
    /\ tret = NoOutcome
    /\ stmts = <<>>
    /\ table0 = {}
    /\ issued = [id \in RowIds |-> 0]

\* How a statement can end: "ok"; "fail", the statement fails and an open
\* transaction stays open (a constraint, SQLITE_BUSY); "abort", the statement
\* fails and SQLite rolls the open transaction back (SQLITE_FULL,
\* SQLITE_IOERR, SQLITE_NOMEM).
WriteOutcomes == IF inTx THEN {"ok", "fail", "abort"} ELSE {"ok", "fail"}

\* BEGIN fails inside a transaction; otherwise it may fail too.
BeginOutcomes == IF inTx THEN {"fail"} ELSE {"ok", "fail"}

\* COMMIT fails when no transaction is open.
CommitOutcomes == IF inTx THEN {"ok", "fail", "abort"} ELSE {"fail"}

\* ROLLBACK fails when no transaction is open ("cannot rollback - no
\* transaction is active"), and ends the open one otherwise.
RollbackOutcomes == IF inTx THEN {"ok"} ELSE {"fail"}

\* What a statement that ends with `outcome` does to the database; t is the
\* table it leaves when it succeeds.
Effect(outcome, t) ==
    CASE outcome = "ok" ->
           /\ table' = t
           /\ committed' = IF inTx THEN committed ELSE t
           /\ inTx' = inTx
      [] outcome = "fail" ->
           UNCHANGED <<table, committed, inTx>>
      [] OTHER ->
           /\ table' = committed
           /\ inTx' = FALSE
           /\ committed' = committed

\* SQLiteConnection.run within a call that has issued statements already
Run(sql, outcome, t) ==
    /\ stmts' = Append(stmts, [sql |-> sql, outcome |-> outcome])
    /\ Effect(outcome, t)

\* beginTransaction / commit / rollback: BEGIN TRANSACTION, COMMIT, ROLLBACK
RunControl(sql, outcome) ==
    /\ stmts' = Append(stmts, [sql |-> sql, outcome |-> outcome])
    /\ CASE outcome = "fail" ->
              UNCHANGED <<table, committed, inTx>>
         [] outcome = "ok" /\ sql = "BEGIN" ->
              /\ inTx' = TRUE
              /\ UNCHANGED <<table, committed>>
         [] outcome = "ok" /\ sql = "COMMIT" ->
              /\ committed' = table
              /\ inTx' = FALSE
              /\ table' = table
         [] OTHER ->
              /\ table' = committed
              /\ inTx' = FALSE
              /\ committed' = committed

Max(S) == CHOOSE x \in S : \A y \in S : y <= x

\* the rowid SQLite gives an inserted row: one more than the greatest in use
NextRowId(t) == Max({r.rowid : r \in t} \cup {0}) + 1

\* INSERT INTO t (val) VALUES (?): create() leaves the id column out, so an
\* INTEGER PRIMARY KEY takes the rowid and a TEXT PRIMARY KEY stays NULL.
Inserted(t, val) ==
    LET rowid == NextRowId(t)
    IN t \cup {Row(rowid, IF pkKind = "integer" THEN rowid ELSE Null, val)}

\* SELECT * FROM t WHERE id = ?  (queryOne): a set with at most one row
Selected(t, id) == {r \in t : r.id = id /\ r.id # Null}

\* UPDATE t SET val = ? WHERE id = ?
Updated(t, id, val) ==
    {IF r.id = id /\ r.id # Null THEN Row(r.rowid, r.id, val) ELSE r : r \in t}

\* A DELETE that empties the table.
DeletedAll(t, ids) == {}

\* DELETE FROM t WHERE id IN (...)
Deleted(t, ids) == {r \in t : r.id \notin ids \/ r.id = Null}

\* the entity create() returns: { ...entity, id: result.lastID }
Created(t, val) == [id |-> NextRowId(t), val |-> val]

\* rowToEntity of the base class: the row as it is; <<>> for undefined
Entity(rows) == IF rows = {} THEN <<>> ELSE LET r == CHOOSE x \in rows : TRUE
                                            IN <<[id |-> r.id, val |-> r.val]>>

\* create() has returned id once more
Returned1(counts, id) == [counts EXCEPT ![id] = IF @ = 0 THEN 1 ELSE 2]

\* A repository call starts: its arguments are taken and its results reset.
Enter(op, ids) ==
    /\ tpc = "idle"
    /\ tcall' = [op |-> op, items |-> <<>>, ids |-> ids]
    /\ tidx' = 1
    /\ tacc' = <<>>
    /\ terr' = NoErr
    /\ stmts' = <<>>
    /\ table0' = table

\* createMany(entities): transaction(callback) is entered
CreateManyCall ==
    /\ Enter("createMany", {})
    /\ tpc' = "begin"
    /\ tret' = TxOutcome("running", <<>>, NoErr)
    /\ UNCHANGED <<pkKind, issued, table, committed, inTx>>
    /\ UNCHANGED notTxVars

\* updateMany(entities): transaction(callback) is entered
UpdateManyCall ==
    /\ Enter("updateMany", {})
    /\ tpc' = "begin"
    /\ tret' = TxOutcome("running", <<>>, NoErr)
    /\ UNCHANGED <<pkKind, issued, table, committed, inTx>>
    /\ UNCHANGED notTxVars

\* deleteMany(ids): 0 for an empty list, without a transaction; otherwise
\* transaction(callback) is entered
DeleteManyCall ==
    /\ \E ids \in SUBSET RowIds :
        /\ Enter("deleteMany", ids)
        /\ IF ids = {}
           THEN /\ tpc' = "done"
                /\ tret' = TxOutcome("ok", <<0>>, NoErr)
           ELSE /\ tpc' = "begin"
                /\ tret' = TxOutcome("running", <<>>, NoErr)
    /\ UNCHANGED <<pkKind, issued, table, committed, inTx>>
    /\ UNCHANGED notTxVars

\* A catch block of transaction() that rethrows without a ROLLBACK.
CaughtNoRollback(e) ==
    /\ terr' = e
    /\ tpc' = "done"
    /\ tret' = [st |-> "error", value |-> <<>>, error |-> e]

\* A repository call that consists of one statement starts.
Alone(op, ids, sql, outcome) ==
    /\ tpc = "idle"
    /\ tcall' = [op |-> op, items |-> <<>>, ids |-> ids]
    /\ tidx' = 1
    /\ tacc' = <<>>
    /\ terr' = NoErr
    /\ stmts' = <<[sql |-> sql, outcome |-> outcome]>>
    /\ table0' = table

\* create(entity) called on its own: one INSERT, no transaction
CreateCall ==
    /\ NextRowId(table) <= MaxRowId
    /\ \E val \in CreateVals, outcome \in WriteOutcomes :
        /\ Alone("create", {}, "INSERT", outcome)
        /\ Effect(outcome, Inserted(table, val))
        /\ IF outcome = "ok"
           THEN /\ tret' = TxOutcome("ok", <<Created(table, val)>>, NoErr)
                /\ issued' = Returned1(issued, Created(table, val).id)
           ELSE /\ tret' = TxOutcome("error", <<>>, Err("INSERT", 0))
                /\ issued' = issued
    /\ tpc' = "done"
    /\ UNCHANGED pkKind
    /\ UNCHANGED notTxVars

\* delete(id) called on its own: one DELETE, true when it changed a row
DeleteCall ==
    /\ \E id \in RowIds, outcome \in WriteOutcomes :
        /\ Alone("delete", {id}, "DELETE", outcome)
        /\ Effect(outcome, Deleted(table, {id}))
        /\ IF outcome = "ok"
           THEN tret' = TxOutcome("ok",
                                  <<Cardinality(table) - Cardinality(Deleted(table, {id})) > 0>>,
                                  NoErr)
           ELSE tret' = TxOutcome("error", <<>>, Err("DELETE", 0))
    /\ tpc' = "done"
    /\ UNCHANGED <<pkKind, issued>>
    /\ UNCHANGED notTxVars

\* the catch block of transaction(): the error is kept and ROLLBACK is next
Caught(e) ==
    /\ terr' = e
    /\ tpc' = "rollback"
    /\ UNCHANGED tret

\* await dbConnection.beginTransaction()
TxBegin ==
    /\ tpc = "begin"
    /\ \E outcome \in BeginOutcomes :
        /\ RunControl("BEGIN", outcome)
        /\ IF outcome = "ok"
           THEN /\ tpc' = "body"
                /\ UNCHANGED <<terr, tret>>
           ELSE Caught(Err("BEGIN", 0))
    /\ UNCHANGED <<pkKind, issued, tcall, tidx, tacc, table0>>
    /\ UNCHANGED notTxVars

\* The entities of a bulk call are read one by one: the loop finds another
\* item, drawn here, or the end of the list.
NextItem(item) ==
    /\ Len(tcall.items) < MaxItems
    /\ tcall' = [tcall EXCEPT !.items = Append(@, item)]

\* One turn of createMany's loop: await this.create(entity).
CreateStep ==
    /\ tpc = "body"
    /\ tcall.op = "createMany"
    /\ NextRowId(table) <= MaxRowId
    /\ \E val \in CreateVals, outcome \in WriteOutcomes :
        /\ NextItem([val |-> val])
        /\ Run("INSERT", outcome, Inserted(table, val))
        /\ IF outcome = "ok"
           THEN /\ tacc' = Append(tacc, <<Created(table, val)>>)
                /\ tidx' = tidx + 1
                /\ issued' = Returned1(issued, Created(table, val).id)
                /\ UNCHANGED <<tpc, terr, tret>>
           ELSE /\ Caught(Err("INSERT", tidx))
                /\ UNCHANGED <<tacc, tidx, issued>>
    /\ UNCHANGED <<pkKind, table0>>
    /\ UNCHANGED notTxVars

\* the columns update() writes: the fields other than id that are defined
Columns(item) == IF item.val = Null THEN {} ELSE {"val"}

\* One turn of updateMany's loop, up to the first await of update(): the id
\* check, then either the findById of an update without columns, or the
\* UPDATE statement.
UpdateStep ==
    /\ tpc = "body"
    /\ tcall.op = "updateMany"
    /\ \E id \in {Null} \cup RowIds, val \in UpdateVals :
        LET item == [id |-> id, val |-> val]
        IN /\ NextItem(item)
           /\ IF id = Null
              THEN /\ Caught(Err("noId", tidx))
                   /\ UNCHANGED <<table, committed, inTx, stmts, tacc, tidx>>
              ELSE IF Columns(item) = {}
              THEN \E outcome \in {"ok", "fail"} :
                     /\ Run("SELECT", outcome, table)
                     /\ IF outcome = "ok"
                        THEN /\ tacc' = Append(tacc, Entity(Selected(table, id)))
                             /\ tidx' = tidx + 1
                             /\ UNCHANGED <<tpc, terr, tret>>
                        ELSE /\ Caught(Err("SELECT", tidx))
                             /\ UNCHANGED <<tacc, tidx>>
              ELSE \E outcome \in WriteOutcomes :
                     /\ Run("UPDATE", outcome, Updated(table, id, val))
                     /\ IF outcome = "ok"
                        THEN /\ tpc' = "reread"
                             /\ UNCHANGED <<terr, tret, tacc, tidx>>
                        ELSE /\ Caught(Err("UPDATE", tidx))
                             /\ UNCHANGED <<tacc, tidx>>
    /\ UNCHANGED <<pkKind, issued, table0>>
    /\ UNCHANGED notTxVars

\* update() after its UPDATE: findById, and the error when the row is absent.
UpdateReread ==
    /\ tpc = "reread"
    /\ LET item == tcall.items[tidx]
       IN \E outcome \in {"ok", "fail"} :
            /\ Run("SELECT", outcome, table)
            /\ IF outcome = "fail"
               THEN /\ Caught(Err("SELECT", tidx))
                    /\ UNCHANGED <<tacc, tidx>>
               ELSE IF Selected(table, item.id) = {}
               THEN /\ Caught(Err("fetch", tidx))
                    /\ UNCHANGED <<tacc, tidx>>
               ELSE /\ tacc' = Append(tacc, Entity(Selected(table, item.id)))
                    /\ tidx' = tidx + 1
                    /\ tpc' = "body"
                    /\ UNCHANGED <<terr, tret>>
    /\ UNCHANGED <<pkKind, issued, tcall, table0>>
    /\ UNCHANGED notTxVars

\* The loop of the callback has reached the end of the list: the callback
\* returns its result and transaction() goes on to COMMIT.
BodyDone ==
    /\ tpc = "body"
    /\ tcall.op \in {"createMany", "updateMany"}
    /\ tpc' = "commit"
    /\ UNCHANGED <<pkKind, issued, table, committed, inTx, tcall, tidx, tacc, terr, tret, stmts, table0>>
    /\ UNCHANGED notTxVars

\* The callback of deleteMany: one DELETE for all the ids; its result is the
\* number of rows the statement changed.
DeleteStep ==
    /\ tpc = "body"
    /\ tcall.op = "deleteMany"
    /\ \E outcome \in WriteOutcomes :
        /\ Run("DELETE", outcome, Deleted(table, tcall.ids))
        /\ IF outcome = "ok"
           THEN /\ tacc' = <<Cardinality(table) - Cardinality(Deleted(table, tcall.ids))>>
                /\ tpc' = "commit"
                /\ UNCHANGED <<terr, tret>>
           ELSE /\ Caught(Err("DELETE", 0))
                /\ UNCHANGED tacc
    /\ UNCHANGED <<pkKind, issued, tcall, tidx, table0>>
    /\ UNCHANGED notTxVars

\* await dbConnection.commit(); return result
TxCommit ==
    /\ tpc = "commit"
    /\ \E outcome \in CommitOutcomes :
        /\ RunControl("COMMIT", outcome)
        /\ IF outcome = "ok"
           THEN /\ tpc' = "done"
                /\ tret' = TxOutcome("ok", tacc, NoErr)
                /\ terr' = terr
           ELSE Caught(Err("COMMIT", 0))
    /\ UNCHANGED <<pkKind, issued, tcall, tidx, tacc, table0>>
    /\ UNCHANGED notTxVars

\* what reaches the caller out of the catch block: the rollback's own error
\* when `await dbConnection.rollback()` throws, else `throw error`
Rethrown(outcome) == IF outcome = "ok" THEN terr ELSE Err("ROLLBACK", 0)

\* await dbConnection.rollback(); throw error
TxRollback ==
    /\ tpc = "rollback"
    /\ \E outcome \in RollbackOutcomes :
        /\ RunControl("ROLLBACK", outcome)
        /\ tret' = TxOutcome("error", <<>>, Rethrown(outcome))
    /\ tpc' = "done"
    /\ UNCHANGED <<pkKind, issued, tcall, tidx, tacc, terr, table0>>
    /\ UNCHANGED notTxVars

\* The caller has received the outcome of the repository call.
TxReturn ==
    /\ tpc = "done"
    /\ tpc' = "idle"
    /\ tcall' = [op |-> "none", items |-> <<>>, ids |-> {}]
    /\ tidx' = 0
    /\ tacc' = <<>>
    /\ terr' = NoErr
    /\ tret' = NoOutcome
    /\ stmts' = <<>>
    /\ table0' = {}
    /\ UNCHANGED <<pkKind, issued, table, committed, inTx>>
    /\ UNCHANGED notTxVars

TxNext ==
    \/ CreateCall
    \/ DeleteCall
    \/ CreateManyCall
    \/ UpdateManyCall
    \/ DeleteManyCall
    \/ TxBegin
    \/ CreateStep
    \/ UpdateStep
    \/ UpdateReread
    \/ DeleteStep
    \/ BodyDone
    \/ TxCommit
    \/ TxRollback
    \/ TxReturn

(***************************************************************************)
(* The task repository (TaskRepository over BaseSQLiteRepository) and the   *)
(* task service (TaskServiceImpl).  The model follows one task: the table   *)
(* holds at most the row of id 1, and id 2 is never stored.  Of a task's     *)
(* fields it keeps title (its length), status, dueDate, metadata and the     *)
(* two timestamps.                                                           *)
(***************************************************************************)
\* A field value is a pair <<kind, n>>: its kind and, for dates, texts of
\* dates and title lengths, a number.
Undefined == <<"undefined", 0>>

\* NULL in a column of the tasks table
SqlNull == <<"null", 0>>

\* a Date object
Date(t) == <<"date", t>>

\* a title of length l
Title(l) == <<"string", l>>

\* a status value
StatusValue(s) == <<s, 0>>

\* a metadata map: {} when n = 0, a map with entries otherwise
Metadata(n) == <<"object", n>>

TaskStatus ==
    {"CREATED", "PLANNED", "IN_PROGRESS", "BLOCKED", "REVIEW", "COMPLETED", "CANCELLED"}

\* A transition table in which COMPLETED is final.
validTransitionsFinal ==
    [c \in TaskStatus |->
        CASE c = "CREATED" -> {"PLANNED", "IN_PROGRESS", "CANCELLED"}
          [] c = "PLANNED" -> {"IN_PROGRESS", "BLOCKED", "CANCELLED"}
          [] c = "IN_PROGRESS" -> {"BLOCKED", "REVIEW", "COMPLETED", "CANCELLED"}
          [] c = "BLOCKED" -> {"IN_PROGRESS", "CANCELLED"}
          [] c = "REVIEW" -> {"IN_PROGRESS", "COMPLETED", "CANCELLED"}
          [] c = "COMPLETED" -> {}
          [] OTHER -> {"CREATED", "PLANNED"}]

validTransitions ==
    [c \in TaskStatus |->
        CASE c = "CREATED" -> {"PLANNED", "IN_PROGRESS", "CANCELLED"}
          [] c = "PLANNED" -> {"IN_PROGRESS", "BLOCKED", "CANCELLED"}
          [] c = "IN_PROGRESS" -> {"BLOCKED", "REVIEW", "COMPLETED", "CANCELLED"}
          [] c = "BLOCKED" -> {"IN_PROGRESS", "CANCELLED"}
          [] c = "REVIEW" -> {"IN_PROGRESS", "COMPLETED", "CANCELLED"}
          [] c = "COMPLETED" -> {"IN_PROGRESS", "CANCELLED"}
          [] OTHER -> {"CREATED", "PLANNED"}]

\* A validateStatusTransition that lets every transition through.
validateAnyTransition(currentStatus, newStatus) == TRUE

\* validateStatusTransition: TRUE when it returns true, FALSE when it throws
validateStatusTransition(currentStatus, newStatus) ==
    \/ currentStatus = newStatus
    \/ newStatus \in validTransitions[currentStatus]

Times == 1..MaxClock

\* the dates callers pass (a due date, a createdAt of their own)
CallerDates == {Date(2)}

\* title lengths: one below the minimum of validateTask, one within its range
Titles == {Title(2), Title(5)}

TaskIds == {1, 2}

Fields == {"title", "status", "dueDate", "metadata", "createdAt", "updatedAt"}

\* an object with none of the fields set
Nothing == [f \in Fields |-> Undefined]

\* A conversion of dates to text that keeps the day only.
toDateString(d) == <<"text", (d[2] \div 2) * 2>>

\* Date.prototype.toISOString and new Date(text): an instant as text, and back
toISOString(d) == <<"text", d[2]>>

DateOf(text) == <<"date", text[2]>>

\* A structured value is <<kind, n>>, kind "object" or "array"; n tells what
\* it holds: 0 nothing, 1 JSON values only, 2 a Date, 3 an undefined, 4 the
\* ISO text of a date, 5 a null.
\* JSON.stringify: a Date becomes its ISO text, an undefined property is
\* dropped, an undefined element becomes null.  An array's text is n + 10.
stringify(m) ==
    LET n == CASE m[2] = 2 -> 4
               [] m[2] = 3 /\ m[1] = "object" -> 0
               [] m[2] = 3 -> 5
               [] OTHER -> m[2]
    IN <<"json", IF m[1] = "array" THEN n + 10 ELSE n>>

\* JSON.parse
parse(text) ==
    IF text[2] >= 10 THEN <<"array", text[2] - 10>> ELSE <<"object", text[2]>>

\* TaskRepository.entityToRow(task) at time t
entityToRow(task, t) ==
    [task EXCEPT
        !.metadata = IF task.metadata # Undefined THEN stringify(task.metadata) ELSE SqlNull,
        !.dueDate = IF task.dueDate # Undefined THEN toISOString(task.dueDate) ELSE SqlNull,
        !.createdAt = IF task.createdAt # Undefined THEN toISOString(task.createdAt)
                      ELSE toISOString(Date(t)),
        !.updatedAt = toISOString(Date(t))]

\* TaskRepository.rowToEntity(row) at time t
rowToEntity(row, t) ==
    [row EXCEPT
        !.metadata = IF row.metadata # SqlNull THEN parse(row.metadata) ELSE Metadata(0),
        !.dueDate = IF row.dueDate # SqlNull THEN DateOf(row.dueDate) ELSE Undefined,
        !.createdAt = IF row.createdAt # SqlNull THEN DateOf(row.createdAt) ELSE Date(t),
        !.updatedAt = IF row.updatedAt # SqlNull THEN DateOf(row.updatedAt) ELSE Date(t)]

\* update(): Object.keys(row).filter(key => key !== 'id' && row[key] !== undefined)
TaskColumns(row) == {f \in Fields : row[f] # Undefined}

\* SELECT * FROM tasks WHERE id = ?
findTask(st, id) == {r \in st : r.id = <<"id", id>>}

\* UPDATE tasks SET <columns> WHERE id = ?
UpdatedStore(st, id, row) ==
    {IF r.id = <<"id", id>>
     THEN [f \in DOMAIN r |-> IF f \in TaskColumns(row) THEN row[f] ELSE r[f]]
     ELSE r : r \in st}

\* the statements update() issues
UpdateSqls(row) == IF TaskColumns(row) = {} THEN <<"SELECT">> ELSE <<"UPDATE", "SELECT">>

WithId(obj, id) ==
    [f \in Fields \cup {"id"} |-> IF f = "id" THEN <<"id", id>> ELSE obj[f]]

\* A validateTask that finds every task valid.
validateAnything(task, t) == TRUE

\* validateTask(task) at time t: TRUE for isValid
validateTask(task, t) ==
    LET required == /\ task.id = Undefined
                    /\ (task.title = Undefined \/ task.status = Undefined)
        title == task.title # Undefined /\ (task.title[2] < 3 \/ task.title[2] > 100)
        due == task.dueDate # Undefined /\ task.dueDate[2] < t
    IN ~required /\ ~title /\ ~due

TaskOutcome(st, kind, value) == [st |-> st, kind |-> kind, value |-> value]

NoTaskCall == [op |-> "none", id |-> 0, arg |-> Nothing]

TaskInit ==
    /\ clock = 1
    /\ store = {}
    /\ spc = "idle"
    /\ scall = NoTaskCall
    /\ sret = TaskOutcome("none", "none", <<>>)
    /\ store0 = {}
    /\ updates = <<>>
    /\ sqls = <<>>
    /\ calls = <<>>

\* Time passes between calls.
TaskTick ==
    /\ spc = "idle"
    /\ clock < MaxClock
    /\ clock' = clock + 1
    /\ UNCHANGED <<store, spc, scall, sret, store0, updates, sqls, calls>>
    /\ UNCHANGED notTaskVars

\* the entities callers create
NewTasks ==
    {[Nothing EXCEPT !.title = l, !.status = s, !.dueDate = d, !.metadata = m,
                     !.createdAt = c] :
        l \in Titles, s \in {StatusValue(x) : x \in TaskStatus},
        d \in {Undefined} \cup CallerDates,
        m \in {Metadata(0), Metadata(1)}, c \in {Undefined} \cup CallerDates}

\* taskRepository.create(entity)
TaskCreate ==
    /\ spc = "idle"
    /\ store = {}
    /\ \E entity \in NewTasks :
        LET row == entityToRow(entity, clock)
        IN /\ store' = store \cup {WithId(row, 1)}
           /\ scall' = [op |-> "create", id |-> 0, arg |-> entity]
           /\ sret' = TaskOutcome("ok", "entity", <<WithId(entity, 1)>>)
    /\ spc' = "done"
    /\ store0' = store
    /\ updates' = <<>>
    /\ sqls' = <<"INSERT">>
    /\ calls' = <<"create">>
    /\ UNCHANGED clock
    /\ UNCHANGED notTaskVars

\* the partial entities callers pass to update: nothing, or one field
Partials ==
    {Nothing}
    \cup {[Nothing EXCEPT !.status = StatusValue(x)] : x \in TaskStatus}
    \cup {[Nothing EXCEPT !.title = l] : l \in Titles}
    \cup {[Nothing EXCEPT !.dueDate = d] : d \in CallerDates}
    \cup {[Nothing EXCEPT !.metadata = m] : m \in {Metadata(0), Metadata(1)}}
    \cup {[Nothing EXCEPT !.createdAt = c] : c \in CallerDates}

\* what update(id, partial) returns or throws, after is the table it leaves
UpdateResult(after, id, row, t) ==
    IF findTask(after, id) # {}
    THEN TaskOutcome("ok", "entity",
                     <<rowToEntity(CHOOSE r \in findTask(after, id) : TRUE, t)>>)
    ELSE IF TaskColumns(row) = {}
    THEN TaskOutcome("ok", "undefined", <<>>)
    ELSE TaskOutcome("error", "fetch", <<>>)

\* taskRepository.update(id, partial)
TaskUpdate ==
    /\ spc = "idle"
    /\ \E id \in TaskIds, partial \in Partials :
        LET row == entityToRow(partial, clock)
            after == IF TaskColumns(row) = {} THEN store ELSE UpdatedStore(store, id, row)
        IN /\ scall' = [op |-> "update", id |-> id, arg |-> partial]
           /\ store' = after
           /\ sqls' = UpdateSqls(row)
           /\ sret' = UpdateResult(after, id, row, clock)
    /\ spc' = "done"
    /\ store0' = store
    /\ updates' = <<>>
    /\ calls' = <<"update">>
    /\ UNCHANGED clock
    /\ UNCHANGED notTaskVars

\* a task as createTask receives it: Omit<Task, 'id'>
NoId(task) == [f \in Fields \cup {"id"} |-> IF f = "id" THEN Undefined ELSE task[f]]

\* { ...existingTask, ...updates }
Merged(existing, upd) ==
    [f \in DOMAIN existing |->
        IF f \in Fields /\ upd[f] # Undefined THEN upd[f] ELSE existing[f]]

\* n calls of taskRepository.findById, and their statements
Finds(n) == [i \in 1..n |-> "findById"]

Selects(n) == [i \in 1..n |-> "SELECT"]

\* updateTask(id, updates), the caller having made n findById calls before:
\* findById, validateTask of the merged task, then
\* taskRepository.update(id, {...updates, updatedAt})
updateTask(id, upd, n) ==
    IF findTask(store, id) = {}
    THEN /\ sret' = TaskOutcome("error", "notFound", <<>>)
         /\ calls' = Finds(n + 1)
         /\ sqls' = Selects(n + 1)
         /\ UNCHANGED <<store, updates>>
    ELSE LET existing == rowToEntity(CHOOSE r \in findTask(store, id) : TRUE, clock)
         IN IF ~validateTask(Merged(existing, upd), clock)
            THEN /\ sret' = TaskOutcome("error", "validation", <<>>)
                 /\ calls' = Finds(n + 1)
                 /\ sqls' = Selects(n + 1)
                 /\ UNCHANGED <<store, updates>>
            ELSE LET partial == [upd EXCEPT !.updatedAt = Date(clock)]
                     row == entityToRow(partial, clock)
                     after == UpdatedStore(store, id, row)
                 IN /\ updates' = <<[id |-> id, partial |-> partial]>>
                    /\ store' = after
                    /\ calls' = Append(Finds(n + 1), "update")
                    /\ sqls' = Selects(n + 1) \o UpdateSqls(row)
                    /\ sret' = UpdateResult(after, id, row, clock)

\* updateStatus(taskId, status): getTask, validateStatusTransition, updateTask
UpdateStatus ==
    /\ spc = "idle"
    /\ \E taskId \in TaskIds, status \in TaskStatus :
        /\ scall' = [op |-> "updateStatus", id |-> taskId,
                     arg |-> [Nothing EXCEPT !.status = StatusValue(status)]]
        /\ IF findTask(store, taskId) = {}
           THEN /\ sret' = TaskOutcome("error", "notFound", <<>>)
                /\ sqls' = <<"SELECT">>
                /\ calls' = <<"findById">>
                /\ UNCHANGED <<store, updates>>
           ELSE LET task == rowToEntity(CHOOSE r \in findTask(store, taskId) : TRUE, clock)
                IN IF ~validateStatusTransition(task.status[1], status)
                   THEN /\ sret' = TaskOutcome("error", "invalidTransition", <<>>)
                        /\ sqls' = <<"SELECT">>
                        /\ calls' = <<"findById">>
                        /\ UNCHANGED <<store, updates>>
                   ELSE updateTask(taskId, [Nothing EXCEPT !.status = StatusValue(status)], 1)
    /\ spc' = "done"
    /\ store0' = store
    /\ UNCHANGED clock
    /\ UNCHANGED notTaskVars

\* createTask(task): validateTask, then taskRepository.create(task)
CreateTask ==
    /\ spc = "idle"
    /\ \E task \in NewTasks :
        /\ scall' = [op |-> "createTask", id |-> 0, arg |-> task]
        /\ IF ~validateTask(NoId(task), clock)
           THEN /\ sret' = TaskOutcome("error", "validation", <<>>)
                /\ calls' = <<>>
                /\ sqls' = <<>>
                /\ UNCHANGED store
           ELSE /\ store = {}
                /\ store' = store \cup {WithId(entityToRow(task, clock), 1)}
                /\ calls' = <<"create">>
                /\ sqls' = <<"INSERT">>
                /\ sret' = TaskOutcome("ok", "entity", <<WithId(task, 1)>>)
    /\ spc' = "done"
    /\ store0' = store
    /\ updates' = <<>>
    /\ UNCHANGED clock
    /\ UNCHANGED notTaskVars

\* updateTask(id, updates) called by a client of the service
UpdateTask ==
    /\ spc = "idle"
    /\ \E id \in TaskIds, upd \in Partials :
        /\ scall' = [op |-> "updateTask", id |-> id, arg |-> upd]
        /\ updateTask(id, upd, 0)
    /\ spc' = "done"
    /\ store0' = store
    /\ UNCHANGED clock
    /\ UNCHANGED notTaskVars

\* deleteTask(id): findById, then taskRepository.delete(id)
DeleteTask ==
    /\ spc = "idle"
    /\ \E id \in TaskIds :
        /\ scall' = [op |-> "deleteTask", id |-> id, arg |-> Nothing]
        /\ IF findTask(store, id) = {}
           THEN /\ sret' = TaskOutcome("error", "notFound", <<>>)
                /\ calls' = <<"findById">>
                /\ sqls' = <<"SELECT">>
                /\ UNCHANGED store
           ELSE /\ store' = store \ findTask(store, id)
                /\ calls' = <<"findById", "delete">>
                /\ sqls' = <<"SELECT", "DELETE">>
                /\ sret' = TaskOutcome("ok", "undefined", <<>>)
    /\ spc' = "done"
    /\ store0' = store
    /\ updates' = <<>>
    /\ UNCHANGED clock
    /\ UNCHANGED notTaskVars

\* The caller has received the outcome of the task call.
TaskReturn ==
    /\ spc = "done"
    /\ spc' = "idle"
    /\ scall' = NoTaskCall
    /\ sret' = TaskOutcome("none", "none", <<>>)
    /\ store0' = {}
    /\ updates' = <<>>
    /\ sqls' = <<>>
    /\ calls' = <<>>
    /\ UNCHANGED <<clock, store>>
    /\ UNCHANGED notTaskVars

TaskNext ==
    \/ TaskTick
    \/ TaskCreate
    \/ TaskUpdate
    \/ UpdateStatus
    \/ CreateTask
    \/ UpdateTask
    \/ DeleteTask
    \/ TaskReturn

(***************************************************************************)
(* The connection: SQLiteConnection (open, close, run/get/all,             *)
(* beginTransaction, ensureConnection), one caller at a time.  A pending     *)
(* call is a frame [fn, at, sql]; an awaited call is the frame above.        *)
(***************************************************************************)
Frame(fn, at, sql) == [fn |-> fn, at |-> at, sql |-> sql]

\* the methods a caller calls, and the frame each starts with
Methods == {"open", "close", "run", "get", "all", "beginTransaction"}

FirstFrame(method) ==
    CASE method = "open" -> Frame("open", "start", "")
      [] method = "close" -> Frame("close", "start", "")
      [] method = "beginTransaction" -> Frame("stmt", "start", "BEGIN TRANSACTION")
      [] OTHER -> Frame("stmt", "start", "SELECT")

\* this.isOpen && this.db
Connected == isOpen /\ db = "handle"

ConnInit ==
    /\ isOpen = FALSE
    /\ db = "null"
    /\ live = 0
    /\ pragmas = {}
    /\ frames = <<>>
    /\ signal = "none"
    /\ cpc = "idle"
    /\ ccall = "none"
    /\ cret = "none"
    /\ envFailed = FALSE

Top == frames[Len(frames)]

\* the innermost pending call moves to position at
Goto(at) == [frames EXCEPT ![Len(frames)] = [@ EXCEPT !.at = at]]

\* the innermost pending call settles: result is "ok" or "error"
Settle(result) ==
    /\ frames' = SubSeq(frames, 1, Len(frames) - 1)
    /\ signal' = result

\* A caller calls a method of the connection.
ConnCall ==
    /\ cpc = "idle"
    /\ \E method \in Methods :
        /\ ccall' = method
        /\ frames' = <<FirstFrame(method)>>
    /\ cpc' = "calling"
    /\ cret' = "pending"
    /\ envFailed' = FALSE
    /\ UNCHANGED <<isOpen, db, live, pragmas, signal>>
    /\ UNCHANGED notConnVars

\* run / get / all from their start: ensureConnection, which awaits open()
\* unless the connection is established, then the statement itself.
StmtStep ==
    /\ frames # <<>>
    /\ signal = "none"
    /\ Top.fn = "stmt"
    /\ Top.at = "start"
    /\ IF ~Connected
       THEN /\ frames' = Append(Goto("ensuring"), Frame("open", "start", ""))
            /\ UNCHANGED <<signal, pragmas, envFailed>>
       ELSE \E ok \in BOOLEAN :
              /\ Settle(IF ok THEN "ok" ELSE "error")
              /\ pragmas' = IF ok /\ Top.sql \in {"PRAGMA journal_mode", "PRAGMA foreign_keys"}
                            THEN pragmas \cup {Top.sql} ELSE pragmas
              /\ envFailed' = (envFailed \/ ~ok)
    /\ UNCHANGED <<isOpen, db, live, cpc, ccall, cret>>
    /\ UNCHANGED notConnVars

\* open() from its start: the existing handle when connected; otherwise a
\* new sqlite3.Database, which fails when the environment refuses it or no
\* further handle can be had, and resolves to the handle or to undefined.
OpenStep ==
    /\ frames # <<>>
    /\ signal = "none"
    /\ Top.fn = "open"
    /\ Top.at = "start"
    /\ IF Connected
       THEN /\ Settle("ok")
            /\ UNCHANGED <<db, live, envFailed>>
       ELSE IF live >= MaxHandles
       THEN /\ Settle("error")
            /\ UNCHANGED <<db, live, envFailed>>
       ELSE \/ /\ Settle("error")
               /\ envFailed' = TRUE
               /\ UNCHANGED <<db, live>>
            \/ /\ \E resolved \in {"handle", "undefined"} : db' = resolved
               /\ live' = live + 1
               /\ frames' = Goto("wal")
               /\ UNCHANGED <<signal, envFailed>>
    /\ UNCHANGED <<isOpen, pragmas, cpc, ccall, cret>>
    /\ UNCHANGED notConnVars

\* open() at one of its two PRAGMA statements: await this.run(...)
OpenPragma ==
    /\ frames # <<>>
    /\ signal = "none"
    /\ Top.fn = "open"
    /\ Top.at \in {"wal", "fk"}
    /\ frames' = Append(Goto(IF Top.at = "wal" THEN "walWait" ELSE "fkWait"),
                        Frame("stmt", "start",
                              IF Top.at = "wal" THEN "PRAGMA journal_mode"
                              ELSE "PRAGMA foreign_keys"))
    /\ UNCHANGED <<isOpen, db, live, pragmas, signal, cpc, ccall, cret, envFailed>>
    /\ UNCHANGED notConnVars

\* An awaited call has settled and the call that awaited it goes on: run
\* after ensureConnection (an error rejects it), open after a PRAGMA (an
\* error is wrapped and rethrown; after the second PRAGMA isOpen is set and
\* open returns).
Resume ==
    /\ frames # <<>>
    /\ signal # "none"
    /\ IF signal = "error"
       THEN /\ Settle("error")
            /\ UNCHANGED isOpen
       ELSE CASE Top.at = "ensuring" ->
                   /\ frames' = Goto("start")
                   /\ signal' = "none"
                   /\ UNCHANGED isOpen
              [] Top.at = "walWait" ->
                   /\ frames' = Goto("fk")
                   /\ signal' = "none"
                   /\ UNCHANGED isOpen
              [] OTHER ->
                   /\ isOpen' = TRUE
                   /\ Settle("ok")
    /\ UNCHANGED <<db, live, pragmas, cpc, ccall, cret, envFailed>>
    /\ UNCHANGED notConnVars

\* close(): nothing unless connected; otherwise the handle is closed.
CloseStep ==
    /\ frames # <<>>
    /\ signal = "none"
    /\ Top.fn = "close"
    /\ IF ~Connected
       THEN /\ Settle("ok")
            /\ UNCHANGED <<isOpen, db, live, envFailed>>
       ELSE \E ok \in BOOLEAN :
              IF ok
              THEN /\ Settle("ok")
                   /\ isOpen' = FALSE
                   /\ db' = "null"
                   /\ live' = live - 1
                   /\ UNCHANGED envFailed
              ELSE /\ Settle("error")
                   /\ envFailed' = TRUE
                   /\ UNCHANGED <<isOpen, db, live>>
    /\ UNCHANGED <<pragmas, cpc, ccall, cret>>
    /\ UNCHANGED notConnVars

\* The caller's promise settles.
ConnDone ==
    /\ cpc = "calling"
    /\ frames = <<>>
    /\ signal # "none"
    /\ cret' = signal
    /\ signal' = "none"
    /\ cpc' = "done"
    /\ UNCHANGED <<isOpen, db, live, pragmas, frames, ccall, envFailed>>
    /\ UNCHANGED notConnVars

\* The caller has received the outcome.
ConnReturn ==
    /\ cpc = "done"
    /\ cpc' = "idle"
    /\ ccall' = "none"
    /\ cret' = "none"
    /\ envFailed' = FALSE
    /\ UNCHANGED <<isOpen, db, live, pragmas, frames, signal>>
    /\ UNCHANGED notConnVars

\* the steps of a pending call
ConnStep ==
    \/ StmtStep
    \/ OpenStep
    \/ OpenPragma
    \/ Resume
    \/ CloseStep
    \/ ConnDone

ConnNext ==
    \/ ConnCall
    \/ ConnStep
    \/ ConnReturn

(***************************************************************************)
(* update(id, entity) of the generic repository, over a table with an      *)
(* INTEGER PRIMARY KEY, while other callers of the same connection insert  *)
(* and delete rows between its statements.                                  *)
(***************************************************************************)
NoUpdate == [id |-> Null, val |-> Null]

UpdInit ==
    /\ urows = {}
    /\ upc = "idle"
    /\ ucall = NoUpdate
    /\ uret = NoOutcome
    /\ ustmts = <<>>

\* update(id, entity) up to its first await: with no column to write,
\* `return this.findById(id) as Promise<T>`; otherwise the UPDATE statement
Update ==
    /\ upc = "idle"
    /\ \E id \in RowIds, val \in UpdateVals :
        LET item == [id |-> id, val |-> val]
        IN /\ ucall' = item
           /\ IF Columns(item) = {}
              THEN /\ ustmts' = <<"SELECT">>
                   /\ uret' = TxOutcome("ok", Entity(Selected(urows, id)), NoErr)
                   /\ upc' = "done"
                   /\ urows' = urows
              ELSE /\ ustmts' = <<"UPDATE">>
                   /\ urows' = Updated(urows, id, val)
                   /\ uret' = TxOutcome("running", <<>>, NoErr)
                   /\ upc' = "reread"
    /\ UNCHANGED notUpdVars

\* update() after its UPDATE: findById, and the error when the row is absent
UpdateFetch ==
    /\ upc = "reread"
    /\ ustmts' = Append(ustmts, "SELECT")
    /\ uret' = IF Selected(urows, ucall.id) = {}
               THEN TxOutcome("error", <<>>, Err("fetch", 0))
               ELSE TxOutcome("ok", Entity(Selected(urows, ucall.id)), NoErr)
    /\ upc' = "done"
    /\ UNCHANGED <<urows, ucall>>
    /\ UNCHANGED notUpdVars

\* Another caller's create(entity) runs while update is not executing: before
\* the call, or between its UPDATE and its re-read.
OtherCreate ==
    /\ upc \in {"idle", "reread"}
    /\ NextRowId(urows) <= MaxRowId
    /\ \E val \in CreateVals : urows' = Inserted(urows, val)
    /\ UNCHANGED <<upc, ucall, uret, ustmts>>
    /\ UNCHANGED notUpdVars

\* Another caller's delete(id) runs while update is not executing.
OtherDelete ==
    /\ upc \in {"idle", "reread"}
    /\ \E id \in RowIds :
        /\ Selected(urows, id) # {}
        /\ urows' = Deleted(urows, {id})
    /\ UNCHANGED <<upc, ucall, uret, ustmts>>
    /\ UNCHANGED notUpdVars

\* The caller has received the outcome of update.
UpdateReturn ==
    /\ upc = "done"
    /\ upc' = "idle"
    /\ ucall' = NoUpdate
    /\ uret' = NoOutcome
    /\ ustmts' = <<>>
    /\ UNCHANGED urows
    /\ UNCHANGED notUpdVars

UpdNext ==
    \/ Update
    \/ UpdateFetch
    \/ OtherCreate
    \/ OtherDelete
    \/ UpdateReturn

(***************************************************************************)
(* MemoryRepository.findSimilar.  A text is a sequence of characters; a     *)
(* number option is a fraction <<n, d>>, and <<0, 0>> when it is not        *)
(* supplied.                                                                *)
(***************************************************************************)
\* the characters that /\W/ does not match
WordChars == {"a", "A", "b"}

\* the texts of queries and memories:
\* "", "a", "A", "b", "a a", "a b", "A  b", "a a b"
Contents ==
    {<<>>, <<"a">>, <<"A">>, <<"b">>, <<"a", " ", "a">>, <<"a", " ", "b">>,
     <<"A", " ", " ", "b">>, <<"a", " ", "a", " ", "b">>}

Contexts == {"work", "home"}

NoNumber == <<0, 0>>

\* the threshold and limit options callers pass
Thresholds == {NoNumber, <<0, 1>>, <<1, 2>>, <<3, 4>>, <<1, 1>>}

Limits == {NoNumber, <<0, 1>>, <<1, 1>>, <<2, 1>>}

\* options.context: absent, or a list of contexts
ContextOptions == {<<>>, <<"work">>, <<"home", "work">>}

\* String.prototype.toLowerCase
toLowerCase(text) == [i \in DOMAIN text |-> IF text[i] = "A" THEN "a" ELSE text[i]]

\* text.split(/\W+/).filter(t => t.length > 0); cur is the token being read
RECURSIVE split(_, _)
split(text, cur) ==
    LET done == IF cur = <<>> THEN <<>> ELSE <<cur>>
    IN IF text = <<>> THEN done
       ELSE IF Head(text) \in WordChars THEN split(Tail(text), Append(cur, Head(text)))
       ELSE done \o split(Tail(text), <<>>)

\* content.toLowerCase().split(/\W+/).filter(t => t.length > 0)
Tokens(text) == split(toLowerCase(text), <<>>)

\* x || dflt for a number option
OrDefault(x, dflt) == IF x = NoNumber \/ x[1] = 0 THEN dflt ELSE x

\* a >= b on fractions with positive denominators
AtLeast(a, b) == a[1] * b[2] >= b[1] * a[2]

\* the similarity findSimilar computes for one memory:
\* intersection = contentTokens.filter(t => memoryTokens.includes(t)).length,
\* union = new Set([...contentTokens, ...memoryTokens]).size
Similarity(contentTokens, memoryTokens) ==
    LET Includes(t) == \E i \in 1..Len(memoryTokens) : memoryTokens[i] = t
        intersection == Len(SelectSeq(contentTokens, Includes))
        union == Cardinality(Range(contentTokens) \cup Range(memoryTokens))
    IN IF union = 0 THEN <<0, 1>> ELSE <<intersection, union>>

\* Array.prototype.sort((a, b) => b.similarity - a.similarity): stable
RECURSIVE InsertBySimilarity(_, _)
InsertBySimilarity(sorted, r) ==
    IF sorted = <<>> THEN <<r>>
    ELSE IF AtLeast(Head(sorted).similarity, r.similarity)
    THEN <<Head(sorted)>> \o InsertBySimilarity(Tail(sorted), r)
    ELSE <<r>> \o sorted

RECURSIVE SortBySimilarity(_)
SortBySimilarity(results) ==
    IF results = <<>> THEN <<>>
    ELSE InsertBySimilarity(SortBySimilarity(SubSeq(results, 1, Len(results) - 1)),
                            results[Len(results)])

\* Array.prototype.slice(0, n) for n >= 0
slice(s, n) == SubSeq(s, 1, IF n < Len(s) THEN n ELSE Len(s))

\* findAll(filter) of findSimilar: every memory, or those of options.context[0]
Candidates(ms, context) ==
    LET InContext(m) == m.context = context[1]
    IN IF Len(context) > 0 THEN SelectSeq(ms, InContext) ELSE ms

\* findSimilar(content, options) over the rows ms
findSimilar(ms, content, options) ==
    LET limit == OrDefault(options.limit, <<10, 1>>)[1]
        threshold == OrDefault(options.threshold, <<1, 2>>)
        contentTokens == Tokens(content)
        found == Candidates(ms, options.context)
        results == [i \in DOMAIN found |->
                       [memory |-> found[i],
                        similarity |-> Similarity(contentTokens, Tokens(found[i].content))]]
        Passes(r) == AtLeast(r.similarity, threshold)
    IN slice(SortBySimilarity(SelectSeq(results, Passes)), limit)

NoSearch == [content |-> <<>>, options |-> [context |-> <<>>, threshold |-> NoNumber,
                                            limit |-> NoNumber]]

SimInit ==
    /\ memories = <<>>
    /\ fpc = "idle"
    /\ fcall = NoSearch
    /\ fret = <<>>

\* create(memory): a row is added to the memories table
StoreMemory ==
    /\ fpc = "idle"
    /\ Len(memories) < MaxMemories
    /\ \E content \in Contents, context \in Contexts :
        memories' = Append(memories, [id |-> Len(memories) + 1, content |-> content,
                                      context |-> context])
    /\ UNCHANGED <<fpc, fcall, fret>>
    /\ UNCHANGED notSimVars

\* a call of findSimilar(content, options)
FindSimilar ==
    /\ fpc = "idle"
    /\ \E content \in Contents, context \in ContextOptions, threshold \in Thresholds,
          limit \in Limits :
        LET options == [context |-> context, threshold |-> threshold, limit |-> limit]
        IN /\ fcall' = [content |-> content, options |-> options]
           /\ fret' = findSimilar(memories, content, options)
    /\ fpc' = "done"
    /\ UNCHANGED memories
    /\ UNCHANGED notSimVars

\* The caller has received the list.
FindReturn ==
    /\ fpc = "done"
    /\ fpc' = "idle"
    /\ fcall' = NoSearch
    /\ fret' = <<>>
    /\ UNCHANGED memories
    /\ UNCHANGED notSimVars

SimNext ==
    \/ StoreMemory
    \/ FindSimilar
    \/ FindReturn

(***************************************************************************)
(* entityToRow and rowToEntity of the four entity repositories, applied    *)
(* one after the other to an entity of the repository's type.  Of each     *)
(* entity the model keeps one scalar field, its dates and its structured   *)
(* fields.                                                                  *)
(***************************************************************************)
Tags(n) == <<"array", n>>

Number(n) == <<"number", n>>

Dates == {Date(t) : t \in Times}

\* the optional dates: absent, or a date
OptionalDates == {Undefined} \cup Dates

\* metadata maps: {}, one of JSON values, one holding a Date, one holding an
\* undefined property
Metadatas == {Metadata(n) : n \in 0..3}

\* tags (string[]), relationships and actions (arrays of records)
TagLists == {Tags(0), Tags(1)}

\* Task: title, status, dueDate?, metadata, createdAt, updatedAt
Tasks ==
    {[title |-> Title(5), status |-> StatusValue("CREATED"), dueDate |-> d,
      metadata |-> m, createdAt |-> c, updatedAt |-> u] :
        d \in OptionalDates, m \in Metadatas, c \in Dates, u \in Dates}

\* TimeEntry: duration, startTime, endTime?, tags, metadata, createdAt, updatedAt
TimeEntries ==
    {[duration |-> Number(0), startTime |-> b, endTime |-> e, tags |-> g,
      metadata |-> m, createdAt |-> c, updatedAt |-> u] :
        b \in Dates, e \in OptionalDates, g \in {Tags(1)}, m \in Metadatas,
        c \in Dates, u \in Dates}

\* Notification: title, timestamp, expiresAt?, actions?, metadata, createdAt,
\* updatedAt
Notifications ==
    {[title |-> Title(0), timestamp |-> b, expiresAt |-> e, actions |-> a,
      metadata |-> m, createdAt |-> c, updatedAt |-> u] :
        b \in Dates, e \in OptionalDates, a \in {Undefined, Tags(1)},
        m \in Metadatas, c \in Dates, u \in Dates}

\* Memory: accessCount, timestamp, lastAccessed?, tags, metadata,
\* relationships, createdAt, updatedAt
Memories ==
    {[accessCount |-> Number(0), timestamp |-> b, lastAccessed |-> e, tags |-> g,
      metadata |-> m, relationships |-> r, createdAt |-> c, updatedAt |-> u] :
        b \in Dates, e \in OptionalDates, g \in TagLists, m \in {Metadata(1), Metadata(2)},
        r \in TagLists, c \in Dates, u \in Dates}

\* x ? convert(x) : dflt, for a date field and for a structured field
DateText(x, dflt) == IF x # Undefined THEN toISOString(x) ELSE dflt

Json(x, dflt) == IF x # Undefined THEN stringify(x) ELSE dflt

\* row.x ? new Date(row.x) : dflt, and row.x ? JSON.parse(row.x) : dflt
TextDate(x, dflt) == IF x # SqlNull /\ x # Undefined THEN DateOf(x) ELSE dflt

Parsed(x, dflt) == IF x # SqlNull /\ x # Undefined THEN parse(x) ELSE dflt

\* TimeEntryRepository.entityToRow(timeEntry) at time t
TimeEntryToRow(timeEntry, t) ==
    [timeEntry EXCEPT
        !.startTime = toISOString(timeEntry.startTime),
        !.endTime = DateText(timeEntry.endTime, SqlNull),
        !.tags = Json(timeEntry.tags, stringify(Tags(0))),
        !.metadata = Json(timeEntry.metadata, stringify(Metadata(0))),
        !.createdAt = DateText(timeEntry.createdAt, toISOString(Date(t))),
        !.updatedAt = toISOString(Date(t))]

\* TimeEntryRepository.rowToEntity(row) at time t
RowToTimeEntry(row, t) ==
    [row EXCEPT
        !.startTime = TextDate(row.startTime, Date(t)),
        !.endTime = TextDate(row.endTime, Undefined),
        !.tags = Parsed(row.tags, Tags(0)),
        !.metadata = Parsed(row.metadata, Metadata(0)),
        !.createdAt = TextDate(row.createdAt, Date(t)),
        !.updatedAt = TextDate(row.updatedAt, Date(t))]

\* NotificationRepository.entityToRow(notification) at time t
NotificationToRow(notification, t) ==
    [notification EXCEPT
        !.timestamp = toISOString(notification.timestamp),
        !.expiresAt = DateText(notification.expiresAt, SqlNull),
        !.actions = Json(notification.actions, SqlNull),
        !.metadata = Json(notification.metadata, stringify(Metadata(0))),
        !.createdAt = DateText(notification.createdAt, toISOString(Date(t))),
        !.updatedAt = toISOString(Date(t))]

\* NotificationRepository.rowToEntity(row) at time t
RowToNotification(row, t) ==
    [row EXCEPT
        !.timestamp = TextDate(row.timestamp, Date(t)),
        !.expiresAt = TextDate(row.expiresAt, Undefined),
        !.actions = Parsed(row.actions, Undefined),
        !.metadata = Parsed(row.metadata, Metadata(0)),
        !.createdAt = TextDate(row.createdAt, Date(t)),
        !.updatedAt = TextDate(row.updatedAt, Date(t))]

\* MemoryRepository.entityToRow(memory) at time t
MemoryToRow(memory, t) ==
    [memory EXCEPT
        !.timestamp = toISOString(memory.timestamp),
        !.lastAccessed = DateText(memory.lastAccessed, SqlNull),
        !.tags = stringify(memory.tags),
        !.metadata = stringify(memory.metadata),
        !.relationships = stringify(memory.relationships),
        !.createdAt = DateText(memory.createdAt, toISOString(Date(t))),
        !.updatedAt = toISOString(Date(t))]

\* MemoryRepository.rowToEntity(row) at time t
RowToMemory(row, t) ==
    [row EXCEPT
        !.timestamp = TextDate(row.timestamp, Date(t)),
        !.lastAccessed = TextDate(row.lastAccessed, Undefined),
        !.tags = Parsed(row.tags, Tags(0)),
        !.metadata = Parsed(row.metadata, Metadata(0)),
        !.relationships = Parsed(row.relationships, Tags(0)),
        !.createdAt = TextDate(row.createdAt, Date(t)),
        !.updatedAt = TextDate(row.updatedAt, Date(t))]

NoEntity == [updatedAt |-> Undefined]

RoundInit ==
    /\ rnow = 1
    /\ rpc = "idle"
    /\ rkind = "none"
    /\ rentity = NoEntity
    /\ rrow = NoEntity
    /\ rback = NoEntity

\* Time passes.
RoundTick ==
    /\ rnow < MaxClock
    /\ rnow' = rnow + 1
    /\ UNCHANGED <<rpc, rkind, rentity, rrow, rback>>
    /\ UNCHANGED notRoundVars

\* an entity is given to entityToRow of the repository of its type
Converted(kind, entity, row) ==
    /\ rpc = "idle"
    /\ rpc' = "row"
    /\ rkind' = kind
    /\ rentity' = entity
    /\ rrow' = row
    /\ UNCHANGED <<rnow, rback>>
    /\ UNCHANGED notRoundVars

TaskToRow == \E task \in Tasks : Converted("Task", task, entityToRow(task, rnow))

TimeEntryRow ==
    \E timeEntry \in TimeEntries :
        Converted("TimeEntry", timeEntry, TimeEntryToRow(timeEntry, rnow))

NotificationRow ==
    \E notification \in Notifications :
        Converted("Notification", notification, NotificationToRow(notification, rnow))

MemoryRow == \E memory \in Memories : Converted("Memory", memory, MemoryToRow(memory, rnow))

\* the row is given to rowToEntity of the same repository
RowBack ==
    /\ rpc = "row"
    /\ rpc' = "entity"
    /\ rback' = CASE rkind = "Task" -> rowToEntity(rrow, rnow)
                  [] rkind = "TimeEntry" -> RowToTimeEntry(rrow, rnow)
                  [] rkind = "Notification" -> RowToNotification(rrow, rnow)
                  [] OTHER -> RowToMemory(rrow, rnow)
    /\ UNCHANGED <<rnow, rkind, rentity, rrow>>
    /\ UNCHANGED notRoundVars

\* The two entities have been compared.
RoundDone ==
    /\ rpc = "entity"
    /\ rpc' = "idle"
    /\ rkind' = "none"
    /\ rentity' = NoEntity
    /\ rrow' = NoEntity
    /\ rback' = NoEntity
    /\ UNCHANGED rnow
    /\ UNCHANGED notRoundVars

RoundNext ==
    \/ RoundTick
    \/ TaskToRow
    \/ TimeEntryRow
    \/ NotificationRow
    \/ MemoryRow
    \/ RowBack
    \/ RoundDone

(***************************************************************************)
(* NotificationRepository.markAs, over the notifications of two ids.       *)
(***************************************************************************)
NotificationStatus == {"PENDING", "DELIVERED", "READ", "ACTED_UPON", "DISMISSED", "EXPIRED"}

NotificationIds == {1, 2}

\* no row of that id
NoRow == [status |-> "none", statusHistory |-> <<>>]

\* An entityToRow that converts what it is given, a timestamp or none.
NotificationToRowTolerant(notification) == FALSE

\* NotificationRepository.entityToRow(notification) throws a TypeError:
\* notification.timestamp.toISOString() on an entity without timestamp
NotificationToRowThrows(notification) == notification.timestamp = Undefined

\* the entity markAs passes to update: { status, updatedAt, metadata }
MarkAsEntity(status, history, t) ==
    [status |-> StatusValue(status), updatedAt |-> Date(t), metadata |-> Metadata(Len(history)),
     timestamp |-> Undefined, expiresAt |-> Undefined, actions |-> Undefined,
     createdAt |-> Undefined, title |-> Undefined]

NotifInit ==
    /\ nstore = [id \in NotificationIds |-> NoRow]
    /\ npc = "idle"
    /\ ncall = [id |-> 0, status |-> "none"]
    /\ nret = "none"

\* create(notification): a notification is stored, with the status its
\* creator gave it
NotifCreate ==
    /\ npc = "idle"
    /\ \E id \in NotificationIds, status \in NotificationStatus :
        /\ nstore[id] = NoRow
        /\ nstore' = [nstore EXCEPT ![id] = [status |-> status, statusHistory |-> <<>>]]
    /\ UNCHANGED <<npc, ncall, nret>>
    /\ UNCHANGED notMarkVars

\* markAs(id, status): findById, the merged metadata with one more entry of
\* statusHistory, then update(id, { status, updatedAt, metadata }), whose
\* first step is entityToRow of that entity
MarkAs ==
    /\ npc = "idle"
    /\ \E id \in NotificationIds, status \in NotificationStatus :
        LET notification == nstore[id]
            statusHistory == Append(notification.statusHistory,
                                    <<notification.status, status>>)
        IN /\ ncall' = [id |-> id, status |-> status]
           /\ IF notification = NoRow
              THEN /\ nret' = "notFound"
                   /\ UNCHANGED nstore
              ELSE IF NotificationToRowThrows(MarkAsEntity(status, statusHistory, rnow))
              THEN /\ nret' = "TypeError"
                   /\ UNCHANGED nstore
              ELSE /\ Len(notification.statusHistory) < MaxHistory
                   /\ nret' = "ok"
                   /\ nstore' = [nstore EXCEPT ![id] = [status |-> status,
                                                        statusHistory |-> statusHistory]]
    /\ npc' = "done"
    /\ UNCHANGED notMarkVars

\* The caller has received the outcome of markAs.
MarkAsReturn ==
    /\ npc = "done"
    /\ npc' = "idle"
    /\ ncall' = [id |-> 0, status |-> "none"]
    /\ nret' = "none"
    /\ UNCHANGED nstore
    /\ UNCHANGED notMarkVars

NotifNext ==
    \/ NotifCreate
    \/ MarkAs
    \/ MarkAsReturn

(***************************************************************************)
(* transaction(callback) when the callback itself calls transaction(), as  *)
(* createMany, updateMany or deleteMany inside a callback do.  A pending   *)
(* call is the place it has reached: "begin", "body", "commit" or          *)
(* "rollback"; a callback lets the errors of the calls it makes escape.    *)
(***************************************************************************)
NestInit ==
    /\ xstack = <<>>
    /\ xopen = FALSE
    /\ xrows = 0
    /\ xdurable = 0
    /\ xlog = <<>>
    /\ xret = "none"

Innermost == xstack[Len(xstack)]

At(place) == xstack # <<>> /\ Innermost = place

\* the innermost call moves on to `place`
Move(place) == xstack' = [xstack EXCEPT ![Len(xstack)] = place]

Logged(sql, outcome) == xlog' = Append(xlog, [sql |-> sql, outcome |-> outcome])

\* the innermost call returns: its caller's callback goes on, or the
\* outermost caller has its result
Returns ==
    /\ xstack' = SubSeq(xstack, 1, Len(xstack) - 1)
    /\ xret' = IF Len(xstack) = 1 THEN "ok" ELSE xret

\* the innermost call throws: the callback that made it lets the error
\* escape into the catch block of its own transaction()
Throws ==
    /\ xstack' = IF Len(xstack) = 1 THEN <<>>
                 ELSE [SubSeq(xstack, 1, Len(xstack) - 1) EXCEPT ![Len(xstack) - 1] = "rollback"]
    /\ xret' = IF Len(xstack) = 1 THEN "error" ELSE xret

\* a caller outside any callback calls transaction(callback)
Transaction ==
    /\ xstack = <<>>
    /\ xret = "none"
    /\ xstack' = <<"begin">>
    /\ xret' = "running"
    /\ UNCHANGED <<xopen, xrows, xdurable, xlog>>
    /\ UNCHANGED notNestVars

\* await dbConnection.beginTransaction(): BEGIN TRANSACTION, which SQLite
\* refuses when a transaction is open ("within": cannot start a transaction
\* within a transaction) and which may fail otherwise too (SQLITE_BUSY)
Begin ==
    /\ At("begin")
    /\ IF xopen
       THEN /\ Logged("BEGIN", "within")
            /\ Move("rollback")
            /\ UNCHANGED xopen
       ELSE \E outcome \in {"ok", "fail"} :
            /\ Logged("BEGIN", outcome)
            /\ Move(IF outcome = "ok" THEN "body" ELSE "rollback")
            /\ xopen' = (outcome = "ok")
    /\ UNCHANGED <<xrows, xdurable, xret>>
    /\ UNCHANGED notNestVars

\* the callback writes a row: await this.create(entity); when the INSERT
\* fails its error escapes the callback ("abort": SQLite has rolled the
\* transaction back by itself)
BodyWrite ==
    /\ At("body")
    /\ xrows < MaxRowId
    /\ \E outcome \in (IF xopen THEN {"ok", "fail", "abort"} ELSE {"ok", "fail"}) :
        /\ Logged("INSERT", outcome)
        /\ CASE outcome = "ok" ->
                  /\ xrows' = xrows + 1
                  /\ xdurable' = IF xopen THEN xdurable ELSE xrows + 1
                  /\ UNCHANGED <<xstack, xopen>>
             [] outcome = "fail" ->
                  /\ Move("rollback")
                  /\ UNCHANGED <<xrows, xdurable, xopen>>
             [] OTHER ->
                  /\ Move("rollback")
                  /\ xrows' = xdurable
                  /\ xopen' = FALSE
                  /\ UNCHANGED xdurable
    /\ UNCHANGED xret
    /\ UNCHANGED notNestVars

\* the callback calls transaction() again: createMany, updateMany, deleteMany
BodyTransaction ==
    /\ At("body")
    /\ Len(xstack) < MaxDepth
    /\ xstack' = Append(xstack, "begin")
    /\ UNCHANGED <<xopen, xrows, xdurable, xlog, xret>>
    /\ UNCHANGED notNestVars

\* the callback returns: await dbConnection.commit() is next
BodyReturns ==
    /\ At("body")
    /\ Move("commit")
    /\ UNCHANGED <<xopen, xrows, xdurable, xlog, xret>>
    /\ UNCHANGED notNestVars

\* await dbConnection.commit(); return result
Commit ==
    /\ At("commit")
    /\ IF xopen
       THEN /\ Logged("COMMIT", "ok")
            /\ xopen' = FALSE
            /\ xdurable' = xrows
            /\ Returns
       ELSE /\ Logged("COMMIT", "fail")
            /\ Move("rollback")
            /\ UNCHANGED <<xopen, xdurable, xret>>
    /\ UNCHANGED xrows
    /\ UNCHANGED notNestVars

\* catch: await dbConnection.rollback(); throw error
Rollback ==
    /\ At("rollback")
    /\ IF xopen
       THEN /\ Logged("ROLLBACK", "ok")
            /\ xopen' = FALSE
            /\ xrows' = xdurable
       ELSE /\ Logged("ROLLBACK", "fail")
            /\ UNCHANGED <<xopen, xrows>>
    /\ Throws
    /\ UNCHANGED xdurable
    /\ UNCHANGED notNestVars

\* The outermost caller has received the outcome.
NestReturn ==
    /\ xstack = <<>>
    /\ xret \in {"ok", "error"}
    /\ xret' = "none"
    /\ xlog' = <<>>
    /\ UNCHANGED <<xstack, xopen, xrows, xdurable>>
    /\ UNCHANGED notNestVars

NestNext ==
    \/ Transaction
    \/ Begin
    \/ BodyWrite
    \/ BodyTransaction
    \/ BodyReturns
    \/ Commit
    \/ Rollback
    \/ NestReturn

(***************************************************************************)
(* findAll(filter) and findOne(filter) of the base repository.             *)
(***************************************************************************)
\* a string as the value of a filter key
String(s) == <<"string", s>>

\* limit, offset, orderBy and orderDirection of FilterOptions
ReservedKeys == {"limit", "offset", "orderBy", "orderDirection"}

\* the columns of the table, which are the other keys a caller passes
ColumnKeys == {"status", "priority"}

\* the values a caller passes under a key
ValuesOf(key) ==
    CASE key = "limit" -> {Number(1), Number(2), Undefined}
      [] key = "offset" -> {Number(0), Number(1)}
      [] key = "orderBy" -> {String("status"), String("priority"), String("")}
      [] key = "orderDirection" -> {String("ASC"), String("DESC")}
      [] key = "status" -> {Number(1), Number(2)}
      [] key = "priority" -> {Number(2), Undefined}

\* the own properties of a filter object
Entries ==
    UNION {{[key |-> k, value |-> v] : v \in ValuesOf(k)} : k \in ReservedKeys \cup ColumnKeys}

\* a filter object: its properties in insertion order, each key once
Objects ==
    UNION {{f \in [1..n -> Entries] : \A i, j \in 1..n : f[i].key = f[j].key => i = j} :
              n \in 0..MaxKeys}

\* the argument of findAll(filter?): an object, or nothing
NoFilter == [given |-> FALSE, entries |-> <<>>]

FilterOptions == {[given |-> TRUE, entries |-> f] : f \in Objects} \cup {NoFilter}

\* filter[key]
Get(filter, key) ==
    IF \E i \in 1..Len(filter.entries) : filter.entries[i].key = key
    THEN filter.entries[CHOOSE i \in 1..Len(filter.entries) : filter.entries[i].key = key].value
    ELSE Undefined

\* whether a value counts as true in a condition
IsTruthy(v) == v \notin {Undefined, String(""), Number(0)}

\* whereConditions.join(' AND ')
RECURSIVE join(_, _)
join(parts, sep) ==
    IF parts = <<>> THEN <<>>
    ELSE IF Len(parts) = 1 THEN parts[1]
    ELSE parts[1] \o <<sep>> \o join(Tail(parts), sep)

\* A buildWhereClause that makes a predicate of every key of the filter.
buildWhereClauseOfEveryKey(filter) ==
    IF ~filter.given THEN <<<<>>, <<>>>>
    ELSE
        LET conditions == filter.entries
            whereConditions == [i \in 1..Len(conditions) |-> <<conditions[i].key, "=", "?">>]
            params == [i \in 1..Len(conditions) |-> conditions[i].value]
            whereClause == IF Len(whereConditions) > 0
                           THEN <<"WHERE">> \o join(whereConditions, "AND")
                           ELSE <<>>
        IN <<whereClause, params>>

\* buildWhereClause(filter): [whereClause, params], the clause as the sequence
\* of its words.
buildWhereClause(filter) ==
    IF ~filter.given THEN <<<<>>, <<>>>>
    ELSE
        LET Condition(e) == e.key \notin ReservedKeys
            conditions == SelectSeq(filter.entries, Condition)
            whereConditions == [i \in 1..Len(conditions) |-> <<conditions[i].key, "=", "?">>]
            params == [i \in 1..Len(conditions) |-> conditions[i].value]
            whereClause == IF Len(whereConditions) > 0
                           THEN <<"WHERE">> \o join(whereConditions, "AND")
                           ELSE <<>>
        IN <<whereClause, params>>

\* buildOrderAndLimit(filter), the clause as the sequence of its words.
buildOrderAndLimit(filter) ==
    IF ~filter.given THEN <<>>
    ELSE
        LET orderBy == Get(filter, "orderBy")
            orderDirection == Get(filter, "orderDirection")
            limit == Get(filter, "limit")
            offset == Get(filter, "offset")
            order == IF IsTruthy(orderBy)
                     THEN <<"ORDER BY", orderBy[2],
                            IF IsTruthy(orderDirection) THEN orderDirection[2] ELSE "ASC">>
                     ELSE <<>>
            paging == IF limit # Undefined
                      THEN <<"LIMIT", ToString(limit[2])>> \o
                           (IF offset # Undefined THEN <<"OFFSET", ToString(offset[2])>> ELSE <<>>)
                      ELSE <<>>
        IN order \o paging

\* The database's side: what SELECT * FROM t followed by the clauses returns.
\* the positions of a word in a statement
Positions(sql, word) == {i \in 1..Len(sql) : sql[i] = word}

\* the k-th smallest element of a set of positions
Nth(S, k) == CHOOSE i \in S : Cardinality({j \in S : j < i}) = k - 1

\* the number a word of digits stands for
ParseNumber(word) == CHOOSE n \in 0..9 : ToString(n) = word

\* the columns the statement names, in its WHERE and ORDER BY clauses
Named(sql) ==
    {sql[i - 1] : i \in Positions(sql, "=")} \cup {sql[i + 1] : i \in Positions(sql, "ORDER BY")}

\* whether a row passes every predicate; a parameter that is not a number
\* (undefined is bound as NULL) equals nothing
Passes(row, sql, params) ==
    \A k \in 1..Cardinality(Positions(sql, "=")) :
        /\ params[k][1] = "number"
        /\ row[sql[Nth(Positions(sql, "="), k) - 1]] = params[k][2]

\* whether row a comes strictly before row b under ORDER BY column direction
Precedes(a, b, column, direction) ==
    IF direction = "DESC" THEN a[column] > b[column] ELSE a[column] < b[column]

\* rows in the order of ORDER BY; rows equal in the column keep rowid order
RECURSIVE OrderRows(_, _, _)
OrderRows(rows, column, direction) ==
    IF rows = <<>> THEN <<>>
    ELSE
        LET sorted == OrderRows(SubSeq(rows, 1, Len(rows) - 1), column, direction)
            r == rows[Len(rows)]
            later == {i \in 1..Len(sorted) : Precedes(r, sorted[i], column, direction)}
            at == IF later = {} THEN Len(sorted) + 1 ELSE Nth(later, 1)
        IN SubSeq(sorted, 1, at - 1) \o <<r>> \o SubSeq(sorted, at, Len(sorted))

\* the rows of the statement's result, when every column it names exists
Select(rows, sql, params) ==
    LET Pass(row) == Passes(row, sql, params)
        matched == SelectSeq(rows, Pass)
        o == Positions(sql, "ORDER BY")
        ordered == IF o = {} THEN matched
                   ELSE OrderRows(matched, sql[Nth(o, 1) + 1], sql[Nth(o, 1) + 2])
        l == Positions(sql, "LIMIT")
        f == Positions(sql, "OFFSET")
        skip == IF f = {} THEN 0 ELSE ParseNumber(sql[Nth(f, 1) + 1])
        take == ParseNumber(sql[Nth(l, 1) + 1])
        upto == IF skip + take < Len(ordered) THEN skip + take ELSE Len(ordered)
    IN IF l = {} THEN ordered ELSE SubSeq(ordered, skip + 1, upto)

\* what a call returns: a list of entities, one entity, undefined, or the
\* database's error
RowList(rows) == [is |-> "list", rows |-> rows]

OneRow(row) == [is |-> "entity", rows |-> <<row>>]

NoneFound == [is |-> "undefined", rows |-> <<>>]

QueryError == [is |-> "error", rows |-> <<>>]

\* the statement a call has sent
Statement(where, params, rest) == [where |-> where, params |-> params, rest |-> rest]

\* findAll(filter) over the table rows: the statement and the return value
findAll(rows, filter) ==
    LET built == buildWhereClause(filter)
        whereClause == built[1]
        params == built[2]
        orderAndLimit == buildOrderAndLimit(filter)
        sql == whereClause \o orderAndLimit
    IN [sql |-> Statement(whereClause, params, orderAndLimit),
        ret |-> IF Named(sql) \subseteq ColumnKeys
                THEN RowList(Select(rows, sql, params))
                ELSE QueryError]

\* findOne(filter) over the table rows: the statement and the return value
findOne(rows, filter) ==
    LET built == buildWhereClause(filter)
        whereClause == built[1]
        params == built[2]
        sql == whereClause \o <<"LIMIT", "1">>
        found == Select(rows, sql, params)
    IN [sql |-> Statement(whereClause, params, <<"LIMIT", "1">>),
        ret |-> IF ~(Named(sql) \subseteq ColumnKeys) THEN QueryError
                ELSE IF found = <<>> THEN NoneFound
                ELSE OneRow(found[1])]

NoQuery == [op |-> "none", filter |-> NoFilter]

NoStatement == Statement(<<>>, <<>>, <<>>)

QueryInit ==
    /\ qrows = <<>>
    /\ qpc = "idle"
    /\ qcall = NoQuery
    /\ qsql = NoStatement
    /\ qret = NoneFound

\* a row enters the table
StoreRow ==
    /\ qpc = "idle"
    /\ Len(qrows) < MaxFound
    /\ \E status \in 1..2, priority \in 1..2 :
          qrows' = Append(qrows, [id |-> Len(qrows) + 1, status |-> status,
                                   priority |-> priority])
    /\ UNCHANGED <<qpc, qcall, qsql, qret>>
    /\ UNCHANGED notQueryVars

FindAll ==
    /\ qpc = "idle"
    /\ \E filter \in FilterOptions :
          /\ qcall' = [op |-> "findAll", filter |-> filter]
          /\ qsql' = findAll(qrows, filter).sql
          /\ qret' = findAll(qrows, filter).ret
    /\ qpc' = "done"
    /\ UNCHANGED qrows
    /\ UNCHANGED notQueryVars

FindOne ==
    /\ qpc = "idle"
    /\ \E filter \in FilterOptions \ {NoFilter} :
          /\ qcall' = [op |-> "findOne", filter |-> filter]
          /\ qsql' = findOne(qrows, filter).sql
          /\ qret' = findOne(qrows, filter).ret
    /\ qpc' = "done"
    /\ UNCHANGED qrows
    /\ UNCHANGED notQueryVars

QueryReturn ==
    /\ qpc = "done"
    /\ qpc' = "idle"
    /\ qcall' = NoQuery
    /\ qsql' = NoStatement
    /\ qret' = NoneFound
    /\ UNCHANGED qrows
    /\ UNCHANGED notQueryVars

QueryNext ==
    \/ StoreRow
    \/ FindAll
    \/ FindOne
    \/ QueryReturn

(***************************************************************************)
(* MemoryRepository.recordAccess, several calls in flight.                 *)
(***************************************************************************)
MemoryIds == {1, 2}

\* the calls that may be in flight together
AccessCalls == 1..MaxCalls

\* a row of the memories table, or the place of an absent one
MemoryRow0 == [exists |-> FALSE, accessCount |-> 0, lastAccessed |-> Undefined]

\* a call that is not running
NoAccess == [pc |-> "idle", id |-> 0, memory |-> MemoryRow0, ret |-> "none"]

\* the entity recordAccess passes to update: { accessCount, lastAccessed }
AccessEntity(memory, t) ==
    [accessCount |-> Number(memory.accessCount + 1), lastAccessed |-> Date(t),
     timestamp |-> Undefined]

\* MemoryRepository.entityToRow(memory) throws a TypeError:
\* memory.timestamp.toISOString() on an entity without timestamp
MemoryToRowThrows(memory) == memory.timestamp = Undefined

AccessInit ==
    /\ astore = [id \in MemoryIds |-> MemoryRow0]
    /\ aproc = [c \in AccessCalls |-> NoAccess]
    /\ asettled = [id \in MemoryIds |-> 0]

\* create(memory): a memory is stored, never accessed yet
AccessCreate ==
    /\ \E id \in MemoryIds :
        /\ ~astore[id].exists
        /\ astore' = [astore EXCEPT ![id] = [MemoryRow0 EXCEPT !.exists = TRUE]]
    /\ UNCHANGED <<aproc, asettled>>
    /\ UNCHANGED notAccessVars

\* recordAccess(id) is called
RecordAccess ==
    /\ \E c \in AccessCalls, id \in MemoryIds :
        /\ aproc[c].pc = "idle"
        /\ asettled[id] + Cardinality({d \in AccessCalls : aproc[d].id = id}) < MaxAccesses
        /\ aproc' = [aproc EXCEPT ![c] = [NoAccess EXCEPT !.pc = "findById", !.id = id]]
    /\ UNCHANGED <<astore, asettled>>
    /\ UNCHANGED notAccessVars

\* const memory = await this.findById(id); if (!memory) throw
AccessFind ==
    /\ \E c \in AccessCalls :
        /\ aproc[c].pc = "findById"
        /\ aproc' = [aproc EXCEPT ![c] =
              IF astore[aproc[c].id].exists
              THEN [@ EXCEPT !.pc = "update", !.memory = astore[aproc[c].id]]
              ELSE [@ EXCEPT !.pc = "done", !.ret = "notFound"]]
    /\ UNCHANGED <<astore, asettled>>
    /\ UNCHANGED notAccessVars

\* return this.update(id, { accessCount: memory.accessCount + 1,
\* lastAccessed: new Date() }): entityToRow of that entity first, then the
\* UPDATE and the re-read
AccessUpdate ==
    /\ \E c \in AccessCalls :
        /\ aproc[c].pc = "update"
        /\ LET id == aproc[c].id
               entity == AccessEntity(aproc[c].memory, rnow)
           IN IF MemoryToRowThrows(entity)
              THEN /\ aproc' = [aproc EXCEPT ![c] = [@ EXCEPT !.pc = "done", !.ret = "TypeError"]]
                   /\ UNCHANGED astore
              ELSE /\ astore' = [astore EXCEPT ![id] =
                          [@ EXCEPT !.accessCount = entity.accessCount[2],
                                    !.lastAccessed = entity.lastAccessed]]
                   /\ aproc' = [aproc EXCEPT ![c] = [@ EXCEPT !.pc = "done", !.ret = "ok"]]
    /\ UNCHANGED asettled
    /\ UNCHANGED notAccessVars

\* The caller has received the outcome of recordAccess.
AccessReturn ==
    /\ \E c \in AccessCalls :
        /\ aproc[c].pc = "done"
        /\ asettled' = IF aproc[c].ret = "notFound" THEN asettled
                       ELSE [asettled EXCEPT ![aproc[c].id] = @ + 1]
        /\ aproc' = [aproc EXCEPT ![c] = NoAccess]
    /\ UNCHANGED astore
    /\ UNCHANGED notAccessVars

AccessNext ==
    \/ AccessCreate
    \/ RecordAccess
    \/ AccessFind
    \/ AccessUpdate
    \/ AccessReturn

(***************************************************************************)
(* transaction(fn) called by several callers on the shared connection.     *)
(***************************************************************************)
Callers == 1..MaxCalls

\* the rows a caller's fn may insert
RowsOf(c) == {<<c, k>> : k \in 1..MaxInserts}

\* the calls between their BEGIN and their return
InFlight == {c \in Callers : ipc[c] \notin {"idle", "done"}}

\* A ROLLBACK that keeps what the transaction wrote.
RolledBackKept(durable, pending) == durable \cup pending

\* ROLLBACK: the rows of the open transaction are discarded
RolledBack(durable, pending) == durable

\* COMMIT: the rows of the open transaction are persisted
Committed(durable, pending) == durable \cup pending

PairInit ==
    /\ ipc = [c \in Callers |-> "idle"]
    /\ iopen = FALSE
    /\ ipending = {}
    /\ idurable = {}
    /\ iwrote = [c \in Callers |-> {}]
    /\ ifn = [c \in Callers |-> "none"]
    /\ iret = [c \in Callers |-> "none"]
    /\ ialone = [c \in Callers |-> TRUE]

\* a caller calls transaction(fn) while others may be awaiting
PairCall ==
    /\ \E c \in Callers :
        /\ ipc[c] = "idle"
        /\ ipc' = [ipc EXCEPT ![c] = "begin"]
        /\ ialone' = [d \in Callers |->
                        IF InFlight = {} THEN ialone[d]
                        ELSE IF d = c \/ d \in InFlight THEN FALSE ELSE ialone[d]]
    /\ UNCHANGED <<iopen, ipending, idurable, iwrote, ifn, iret>>
    /\ UNCHANGED notPairVars

\* await dbConnection.beginTransaction(): SQLite refuses BEGIN TRANSACTION
\* when a transaction is open, and BEGIN may fail otherwise too
PairBegin ==
    /\ \E c \in Callers :
        /\ ipc[c] = "begin"
        /\ IF iopen
           THEN /\ ipc' = [ipc EXCEPT ![c] = "rollback"]
                /\ UNCHANGED iopen
           ELSE \E ok \in BOOLEAN :
                /\ ipc' = [ipc EXCEPT ![c] = IF ok THEN "body" ELSE "rollback"]
                /\ iopen' = ok
    /\ UNCHANGED <<ipending, idurable, iwrote, ifn, iret, ialone>>
    /\ UNCHANGED notPairVars

\* fn writes a row through the connection: inside the open transaction,
\* whoever opened it, or in autocommit mode when none is open
PairWrite ==
    /\ \E c \in Callers :
        /\ ipc[c] = "body"
        /\ \E row \in RowsOf(c) \ iwrote[c] :
            /\ iwrote' = [iwrote EXCEPT ![c] = @ \cup {row}]
            /\ IF iopen
               THEN /\ ipending' = ipending \cup {row}
                    /\ UNCHANGED idurable
               ELSE /\ idurable' = idurable \cup {row}
                    /\ UNCHANGED ipending
    /\ UNCHANGED <<ipc, iopen, ifn, iret, ialone>>
    /\ UNCHANGED notPairVars

\* fn returns, or throws
PairFn ==
    /\ \E c \in Callers, ok \in BOOLEAN :
        /\ ipc[c] = "body"
        /\ ifn' = [ifn EXCEPT ![c] = IF ok THEN "returned" ELSE "threw"]
        /\ ipc' = [ipc EXCEPT ![c] = IF ok THEN "commit" ELSE "rollback"]
    /\ UNCHANGED <<iopen, ipending, idurable, iwrote, iret, ialone>>
    /\ UNCHANGED notPairVars

\* await dbConnection.commit(); return result. COMMIT fails when no
\* transaction is open.
PairCommit ==
    /\ \E c \in Callers :
        /\ ipc[c] = "commit"
        /\ IF iopen
           THEN /\ idurable' = Committed(idurable, ipending)
                /\ ipending' = {}
                /\ iopen' = FALSE
                /\ ipc' = [ipc EXCEPT ![c] = "done"]
                /\ iret' = [iret EXCEPT ![c] = "ok"]
           ELSE /\ ipc' = [ipc EXCEPT ![c] = "rollback"]
                /\ UNCHANGED <<idurable, ipending, iopen, iret>>
    /\ UNCHANGED <<iwrote, ifn, ialone>>
    /\ UNCHANGED notPairVars

\* catch: await dbConnection.rollback(); throw error. ROLLBACK fails when no
\* transaction is open, and the call throws either way.
PairRollback ==
    /\ \E c \in Callers :
        /\ ipc[c] = "rollback"
        /\ IF iopen
           THEN /\ idurable' = RolledBack(idurable, ipending)
                /\ ipending' = {}
                /\ iopen' = FALSE
           ELSE UNCHANGED <<idurable, ipending, iopen>>
        /\ ipc' = [ipc EXCEPT ![c] = "done"]
        /\ iret' = [iret EXCEPT ![c] = "error"]
    /\ UNCHANGED <<iwrote, ifn, ialone>>
    /\ UNCHANGED notPairVars

PairNext ==
    \/ PairCall
    \/ PairBegin
    \/ PairWrite
    \/ PairFn
    \/ PairCommit
    \/ PairRollback

(***************************************************************************)
(* TaskService.updateStatus, several calls in flight on one stored task.   *)
(***************************************************************************)
\* a call that is not running
NoStatusCall == [pc |-> "idle", status |-> "none", read |-> "none", ret |-> "none"]

RaceInit ==
    /\ kstatus = "CREATED"
    /\ kcall = [c \in Callers |-> NoStatusCall]
    /\ ktrail = <<"CREATED">>

\* updateStatus(taskId, status) is called
RaceCall ==
    /\ \E c \in Callers, status \in TaskStatus :
        /\ kcall[c].pc = "idle"
        /\ Len(ktrail) + Cardinality({d \in Callers : kcall[d].pc # "idle"}) < MaxTrail
        /\ kcall' = [kcall EXCEPT ![c] = [NoStatusCall EXCEPT !.pc = "getTask", !.status = status]]
    /\ UNCHANGED <<kstatus, ktrail>>
    /\ UNCHANGED notRaceVars

\* const task = await this.getTask(taskId);
\* this.validateStatusTransition(task.status, status)
RaceGetTask ==
    /\ \E c \in Callers :
        /\ kcall[c].pc = "getTask"
        /\ kcall' = [kcall EXCEPT ![c] =
              IF validateStatusTransition(kstatus, kcall[c].status)
              THEN [@ EXCEPT !.pc = "findById", !.read = kstatus]
              ELSE [@ EXCEPT !.pc = "done", !.read = kstatus, !.ret = "invalidTransition"]]
    /\ UNCHANGED <<kstatus, ktrail>>
    /\ UNCHANGED notRaceVars

\* updateTask: const existingTask = await this.taskRepository.findById(id),
\* then validateTask of the merged task, which has no rule on status
RaceFindById ==
    /\ \E c \in Callers :
        /\ kcall[c].pc = "findById"
        /\ kcall' = [kcall EXCEPT ![c] = [@ EXCEPT !.pc = "update"]]
    /\ UNCHANGED <<kstatus, ktrail>>
    /\ UNCHANGED notRaceVars

\* updateTask: await this.taskRepository.update(id, { status, updatedAt })
RaceUpdate ==
    /\ \E c \in Callers :
        /\ kcall[c].pc = "update"
        /\ kstatus' = kcall[c].status
        /\ ktrail' = Append(ktrail, kcall[c].status)
        /\ kcall' = [kcall EXCEPT ![c] = [@ EXCEPT !.pc = "done", !.ret = "ok"]]
    /\ UNCHANGED notRaceVars

\* The caller has received the outcome of updateStatus.
RaceReturn ==
    /\ \E c \in Callers :
        /\ kcall[c].pc = "done"
        /\ kcall' = [kcall EXCEPT ![c] = NoStatusCall]
    /\ UNCHANGED <<kstatus, ktrail>>
    /\ UNCHANGED notRaceVars

RaceNext ==
    \/ RaceCall
    \/ RaceGetTask
    \/ RaceFindById
    \/ RaceUpdate
    \/ RaceReturn

(***************************************************************************)
(* Specifications.                                                         *)
(***************************************************************************)
Init == MigInit /\ TxInit("integer") /\ TaskInit /\ ConnInit /\ UpdInit /\ SimInit /\ RoundInit /\ NotifInit /\ NestInit /\ QueryInit /\ AccessInit /\ PairInit /\ RaceInit

\* the migration engine alone
Spec == Init /\ [][MigNext]_vars

\* the migration engine with the history of the units in effect kept
InitLedger == MigStart(TRUE) /\ TxInit("integer") /\ TaskInit /\ ConnInit /\ UpdInit /\ SimInit /\ RoundInit /\ NotifInit /\ NestInit /\ QueryInit /\ AccessInit /\ PairInit /\ RaceInit

SpecLedger == InitLedger /\ [][MigNext]_vars

\* the repository alone on the connection, over a table of either key kind
InitTx == MigInit /\ TaskInit /\ ConnInit /\ UpdInit /\ SimInit /\ RoundInit /\ NotifInit /\ NestInit /\ QueryInit /\ AccessInit /\ PairInit /\ RaceInit /\ \E kind \in {"integer", "text"} : TxInit(kind)

SpecTx == InitTx /\ [][TxNext]_vars

\* the task repository and the task service alone
SpecTask == Init /\ [][TaskNext]_vars

\* the connection alone; a pending call is always run on by the event loop
SpecConn == Init /\ [][ConnNext]_vars /\ WF_vars(ConnStep)

\* update() of the generic repository among other callers
SpecUpd == Init /\ [][UpdNext]_vars

\* findSimilar of the memory repository
SpecSim == Init /\ [][SimNext]_vars

\* the conversions of the entity repositories
SpecRound == Init /\ [][RoundNext]_vars

\* markAs of the notification repository
SpecNotif == Init /\ [][NotifNext]_vars

\* transaction() called from within callbacks of transaction()
SpecNest == Init /\ [][NestNext]_vars

\* findAll and findOne alone
SpecQuery == Init /\ [][QueryNext]_vars

\* recordAccess alone
SpecAccess == Init /\ [][AccessNext]_vars

\* interleaved transaction(fn) calls alone
SpecPair == Init /\ [][PairNext]_vars

\* concurrent updateStatus calls alone
SpecRace == Init /\ [][RaceNext]_vars

(***************************************************************************)
(* Properties of the migration engine.                                     *)
(***************************************************************************)
Last(s) == s[Len(s)]

IdsOf(s) == {s[i].id : i \in 1..Len(s)}

EventsOf(ev) == {i \in 1..Len(events) : events[i].ev = ev}

Finished(op) == pc = "done" /\ ret.op = op

\* C1: a migrateUp that starts right after a successful migrateUp, the
\* directory untouched in between, invokes no up and inserts no ledger row,
\* and a status() taken after either call reports the ledger as applied and
\* nothing as pending.
MigrateUpIdempotent ==
    /\ (ret.op = "migrateUp" /\ call.wasSettled) =>
          /\ pc = "done"
          /\ events = <<>>
          /\ ledger = ledger0
    /\ (Finished("status") /\ ret.st = "ok" /\ settled) =>
          /\ ret.pending = <<>>
          /\ ret.applied = getAppliedMigrations(ledger)
          /\ IdsOf(migrations) \subseteq IdsOf(ledger)

\* C1 witness: a second migrateUp has returned after a first one that had
\* applied units.
MigrateUpIdempotentWitness ==
    /\ Finished("migrateUp")
    /\ ret.st = "ok"
    /\ call.wasSettled
    /\ Len(ledger) >= 2
    /\ Len(migrations) >= 2

\* C2: when a pending unit fails in migrateUp (its up, or its ledger insert),
\* the call stops there and throws an error naming that unit's file; the
\* ledger holds no row of that unit (a row carrying its filename), no unit
\* with a greater id had its up invoked, and the rows inserted earlier in the
\* call are still in the ledger.
MigrateUpStopsAtFailure ==
    ret.op = "migrateUp" =>
        \A i \in 1..Len(events) :
            ~events[i].ok =>
                /\ i = Len(events)
                /\ pc = "done"
                /\ ret.st = "error"
                /\ ret.names = <<events[i].filename>>
                /\ \A r \in Range(ledger) : r.filename # events[i].filename
                /\ \A j \in EventsOf("up") : ~LexLess(events[i].id, events[j].id)
                /\ \A j \in EventsOf("record") :
                      events[j].ok =>
                         [id |-> events[j].id, filename |-> events[j].filename] \in Range(ledger)

\* C2 witness: the second pending unit failed, after the first was applied,
\* with a third still pending.
MigrateUpStopsAtFailureWitness ==
    /\ Finished("migrateUp")
    /\ Len(events) >= 3
    /\ ~Last(events).ok
    /\ events[2].ev = "record" /\ events[2].ok
    /\ \E m \in Range(migrations) : LexLess(Last(events).id, m.id)

\* C2 witness of the other failing step: the ledger insert of a unit fails.
MigrateUpInsertFailureWitness ==
    /\ Finished("migrateUp")
    /\ events # <<>>
    /\ Last(events).ev = "record"
    /\ ~Last(events).ok

\* The shape of a migrateUp call's steps: up, record, up, record, ..., each
\* record that of the unit whose up precedes it, each up after the first
\* following a completed record.
UpThenRecord ==
    \A i \in 1..Len(events) :
        /\ events[i].ev = (IF i % 2 = 1 THEN "up" ELSE "record")
        /\ i % 2 = 0 =>
              /\ events[i - 1].ok
              /\ events[i - 1].filename = events[i].filename
        /\ (i % 2 = 1 /\ i > 1) => events[i - 1].ok

RowsAbove(l, id) ==
    LET Greater(r) == LexLess(id, r.id)
    IN Reverse(SelectSeq(SortById(l), Greater))

\* the ledger without the rows whose id is in S
Without(l, S) ==
    LET Kept(r) == r.id \notin S
    IN SelectSeq(l, Kept)

\* every row of the ledger at the start of the call has a discovered unit
AllDiscovered == IdsOf(ledger0) \subseteq IdsOf(migrations)

\* the ids of the rows the rollback loop has taken up so far, in order
TakenUp ==
    LET Turn(e) == e.ev \in {"down", "skip"}
        turns == SelectSeq(events, Turn)
    IN [i \in 1..Len(turns) |-> turns[i].id]

IsPrefix(s, t) == Len(s) <= Len(t) /\ \A i \in 1..Len(s) : s[i] = t[i]

\* C4 as stated, for the calls that return normally and find every applied
\* unit in the directory: migrateDown() without a targetId invokes exactly one
\* down, that of the most recently applied unit, and deletes exactly that
\* unit's row.
MigrateDownLatestApplied ==
    (/\ Finished("migrateDown")
     /\ ret.st = "ok"
     /\ call.target = <<>>
     /\ ledger0 # <<>>
     /\ AllDiscovered) =>
        /\ Cardinality(EventsOf("down")) = 1
        /\ \A i \in EventsOf("down") : events[i].id = Last(ledger0).id
        /\ ledger = Without(ledger0, {Last(ledger0).id})

\* C5 as stated, for the calls that return normally: migrateDown(targetId)
\* with targetId in the ledger invokes down for every applied unit with a
\* greater id, greatest first, and deletes their rows; the other rows stay.
MigrateDownToTargetAll ==
    (/\ Finished("migrateDown")
     /\ ret.st = "ok"
     /\ Truthy(call.target)
     /\ call.target[1] \in IdsOf(ledger0)) =>
        LET above == RowsAbove(ledger0, call.target[1])
            downs == SelectSeq(events, LAMBDA e : e.ev = "down")
        IN /\ [i \in 1..Len(downs) |-> downs[i].id] = [i \in 1..Len(above) |-> above[i].id]
           /\ ledger = Without(ledger0, IdsOf(above))

\* C5, amended: migrateDown(targetId) with targetId in the ledger takes up
\* the applied units with a greater id in strictly descending id order; a
\* unit that is no longer discovered is skipped and keeps its row, every
\* other one has its down invoked and, once the down has completed, its row
\* deleted before the next unit is taken up; the rows of targetId and of
\* smaller ids stay; a call that returns normally has taken up every such
\* unit.
MigrateDownToTarget ==
    (/\ ret.op = "migrateDown"
     /\ Truthy(call.target)
     /\ call.target[1] \in IdsOf(ledger0)) =>
        LET above == RowsAbove(ledger0, call.target[1])
            removed == {events[i].id : i \in {j \in EventsOf("remove") : events[j].ok}}
        IN /\ IsPrefix(TakenUp, [i \in 1..Len(above) |-> above[i].id])
           /\ \A i \in 1..(Len(TakenUp) - 1) : LexLess(TakenUp[i + 1], TakenUp[i])
           /\ \A i \in EventsOf("skip") : events[i].id \notin IdsOf(migrations)
           /\ \A i \in EventsOf("down") :
                 /\ events[i].id \in IdsOf(migrations)
                 /\ (events[i].ok /\ i < Len(events)) =>
                       events[i + 1].ev = "remove" /\ events[i + 1].id = events[i].id
                 /\ (events[i].ok /\ i = Len(events)) => pc = "remove"
           /\ \A i \in EventsOf("remove") :
                 i > 1 /\ events[i - 1].ev = "down" /\ events[i - 1].ok
                       /\ events[i - 1].id = events[i].id
           /\ ledger = Without(ledger0, removed)
           /\ \A r \in Range(ledger0) : ~LexLess(call.target[1], r.id) => r \in Range(ledger)
           /\ (pc = "done" /\ ret.st = "ok") =>
                 /\ Len(TakenUp) = Len(above)
                 /\ ledger = Without(ledger0, IdsOf(above) \cap IdsOf(migrations))

\* C5 witness: a rollback to a target has returned after rolling back two
\* units.
MigrateDownToTargetWitness ==
    /\ Finished("migrateDown")
    /\ ret.st = "ok"
    /\ Truthy(call.target)
    /\ Len(ledger0) = 3
    /\ Len(ledger) = 1
    /\ Cardinality(EventsOf("down")) = 2

\* C5 witness of the skipped case: a rollback to a target has returned
\* having skipped an applied unit that is no longer discovered.
MigrateDownSkipWitness ==
    /\ Finished("migrateDown")
    /\ ret.st = "ok"
    /\ Truthy(call.target)
    /\ EventsOf("skip") # {}
    /\ EventsOf("down") # {}

\* C6 as stated: migrateDown(targetId) with a targetId that is not in the
\* (non-empty) ledger ends with an error, invokes no down and leaves the
\* ledger as it was.
MigrateDownUnknownTargetThrows ==
    (/\ Finished("migrateDown")
     /\ Truthy(call.target)
     /\ ledger0 # <<>>
     /\ call.target[1] \notin IdsOf(ledger0)) =>
        /\ ret.st = "error"
        /\ events = <<>>
        /\ ledger = ledger0

\* C7: when a down fails in migrateDown, the call stops there and throws;
\* the rows deleted earlier in the call stay deleted, the failing unit's row
\* is still in the ledger, and no further down is invoked.
MigrateDownStopsAtFailure ==
    ret.op = "migrateDown" =>
        \A i \in EventsOf("down") :
            ~events[i].ok =>
                /\ i = Len(events)
                /\ pc = "done"
                /\ ret.st = "error"
                /\ ret.names = <<events[i].filename>>
                /\ events[i].id \in IdsOf(ledger)
                /\ \A j \in EventsOf("remove") :
                      events[j].ok => events[j].id \notin IdsOf(ledger)
                /\ \A r \in Range(ledger0) :
                      r.id \notin {events[j].id : j \in EventsOf("remove")} => r \in Range(ledger)

\* C7 witness: a multi-unit rollback whose second down failed after the
\* first unit had been rolled back.
MigrateDownStopsAtFailureWitness ==
    /\ Finished("migrateDown")
    /\ Truthy(call.target)
    /\ Len(events) = 3
    /\ events[2].ev = "remove" /\ events[2].ok
    /\ events[3].ev = "down" /\ ~events[3].ok
    /\ Len(ledger) = 2

\* C7 witness of the remaining units: the first down of a multi-unit
\* rollback failed, a second unit still waiting.
MigrateDownRemainingWitness ==
    /\ Finished("migrateDown")
    /\ Truthy(call.target)
    /\ Len(events) = 1
    /\ ~events[1].ok
    /\ Len(RowsAbove(ledger0, call.target[1])) = 2

\* C8: status() invokes no up and no down and leaves the ledger as it is; it
\* returns the ledger rows as applied and the discovered units whose id is
\* not in the ledger as pending, so no id is in both lists and every
\* discovered id is in one of them.
StatusReadsOnly ==
    Finished("status") =>
        /\ events = <<>>
        /\ ledger = ledger0
        /\ ret.st = "ok" =>
              /\ Range(ret.applied) = Range(ledger)
              /\ Len(ret.applied) = Len(ledger)
              /\ Range(ret.pending) = {m \in Range(migrations) : m.id \notin IdsOf(ledger)}
              /\ IdsOf(ret.applied) \cap IdsOf(ret.pending) = {}
              /\ IdsOf(migrations) \subseteq IdsOf(ret.applied) \cup IdsOf(ret.pending)

\* C8 witness: status() has returned with both lists non-empty.
StatusReadsOnlyWitness ==
    /\ Finished("status")
    /\ ret.st = "ok"
    /\ ret.applied # <<>>
    /\ ret.pending # <<>>
    /\ Len(migrations) > Len(ret.pending)

(***************************************************************************)
(* Properties of transaction() and the bulk operations.                    *)
(***************************************************************************)
TxFinished == tpc = "done" /\ stmts # <<>>

IssuedOk(sql) == \E i \in 1..Len(stmts) : stmts[i].sql = sql /\ stmts[i].outcome = "ok"

\* C9 as stated: transaction(fn) issues BEGIN first; when fn completes it
\* issues COMMIT and, COMMIT done, returns fn's result; when BEGIN, fn or
\* COMMIT fails it issues ROLLBACK and the error that reaches the caller is
\* the error that failure raised, whatever ROLLBACK itself does.
TransactionRethrowsOriginal ==
    TxFinished =>
        /\ stmts[1].sql = "BEGIN"
        /\ tret.st = "ok" =>
              /\ Last(stmts) = [sql |-> "COMMIT", outcome |-> "ok"]
              /\ tret.value = tacc
        /\ tret.st = "error" =>
              /\ Last(stmts).sql = "ROLLBACK"
              /\ terr # NoErr
              /\ tret.error = terr

\* the table after the writes of a bulk call's items, in order
RECURSIVE Written(_, _, _)
Written(t, op, items) ==
    IF items = <<>> THEN t
    ELSE LET item == Head(items)
             next == IF op = "createMany" THEN Inserted(t, item.val)
                     ELSE IF Columns(item) = {} THEN t
                     ELSE Updated(t, item.id, item.val)
         IN Written(next, op, Tail(items))

\* C10: createMany and updateMany, alone on the connection, are all or
\* nothing: a call that throws leaves the table, as read and as stored, what
\* it was before the call; a call that returns has stored the write of every
\* item; either way no transaction is left open.
BulkAllOrNothing ==
    /\ tpc = "idle" => ~inTx /\ table = committed
    /\ (tpc = "done" /\ tcall.op \in {"createMany", "updateMany"}) =>
          /\ ~inTx
          /\ table = committed
          /\ tret.st = "error" => committed = table0
          /\ tret.st = "ok" => committed = Written(table0, tcall.op, tcall.items)
          /\ tret.st \in {"ok", "error"}

\* C10 witness: a bulk call has thrown after one of its writes had succeeded.
BulkAllOrNothingWitness ==
    /\ tpc = "done"
    /\ tcall.op \in {"createMany", "updateMany"}
    /\ tret.st = "error"
    /\ tret.error.at = 2
    /\ table0 # {}
    /\ \/ IssuedOk("INSERT")
       \/ IssuedOk("UPDATE") /\ Written(table0, tcall.op, tcall.items) # table0

\* C10 witness of the other half: an updateMany of two items has returned
\* and changed the table.
BulkAllWrittenWitness ==
    /\ tpc = "done"
    /\ tcall.op = "updateMany"
    /\ tret.st = "ok"
    /\ Len(tcall.items) = 2
    /\ committed # table0

Issued(sql) == \E i \in 1..Len(stmts) : stmts[i].sql = sql

\* C11 as stated: an updateMany whose list holds an item without id issues
\* no UPDATE statement for any item of the list, wherever that item stands.
UpdateManyChecksIdsFirst ==
    (/\ tcall.op = "updateMany"
     /\ \E i \in 1..Len(tcall.items) : tcall.items[i].id = Null) =>
        ~Issued("UPDATE")

(***************************************************************************)
(* Properties of the task service and the task repository.                 *)
(***************************************************************************)
\* the transition table, as pairs <<from, to>>
LegalPairs ==
    {<<"CREATED", "PLANNED">>, <<"CREATED", "IN_PROGRESS">>, <<"CREATED", "CANCELLED">>,
     <<"PLANNED", "IN_PROGRESS">>, <<"PLANNED", "BLOCKED">>, <<"PLANNED", "CANCELLED">>,
     <<"IN_PROGRESS", "BLOCKED">>, <<"IN_PROGRESS", "REVIEW">>,
     <<"IN_PROGRESS", "COMPLETED">>, <<"IN_PROGRESS", "CANCELLED">>,
     <<"BLOCKED", "IN_PROGRESS">>, <<"BLOCKED", "CANCELLED">>,
     <<"REVIEW", "IN_PROGRESS">>, <<"REVIEW", "COMPLETED">>, <<"REVIEW", "CANCELLED">>,
     <<"COMPLETED", "IN_PROGRESS">>, <<"COMPLETED", "CANCELLED">>,
     <<"CANCELLED", "CREATED">>, <<"CANCELLED", "PLANNED">>}

Legal(c, n) == c = n \/ <<c, n>> \in LegalPairs

\* the row the finished call was aimed at, as it was when the call started
Before == CHOOSE r \in findTask(store0, scall.id) : TRUE

\* the same row now
After == CHOOSE r \in findTask(store, scall.id) : TRUE

StatusCallDone ==
    /\ spc = "done"
    /\ scall.op = "updateStatus"
    /\ findTask(store0, scall.id) # {}

\* C12: updateStatus(taskId, s) on a task of status c calls the repository
\* update only when s = c or c -> s is in the transition table; for every
\* other pair it throws the invalid-transition error, calls no repository
\* update, issues no UPDATE and leaves the table as it was.
UpdateStatusGuardsTransitions ==
    StatusCallDone =>
        LET c == Before.status[1]
            n == scall.arg.status[1]
        IN /\ updates # <<>> => Legal(c, n)
           /\ ~Legal(c, n) =>
                 /\ sret = TaskOutcome("error", "invalidTransition", <<>>)
                 /\ updates = <<>>
                 /\ ~\E i \in 1..Len(sqls) : sqls[i] = "UPDATE"
                 /\ store = store0

\* C12 witness: CREATED -> REVIEW has been rejected.
UpdateStatusGuardsTransitionsWitness ==
    /\ StatusCallDone
    /\ Before.status[1] = "CREATED"
    /\ scall.arg.status[1] = "REVIEW"
    /\ sret.st = "error"

\* C12 witness of the accepted side: CREATED -> PLANNED has reached the
\* repository update.
UpdateStatusAcceptedWitness ==
    /\ StatusCallDone
    /\ Before.status[1] = "CREATED"
    /\ scall.arg.status[1] = "PLANNED"
    /\ Len(updates) = 1
    /\ sret.st = "ok"

\* C13 as stated: for every stored task, whatever its other fields,
\* updateStatus with a legal transition calls the repository update with
\* the new status and returns the updated task.
UpdateStatusAcceptsLegal ==
    (StatusCallDone /\ Legal(Before.status[1], scall.arg.status[1])) =>
        /\ Len(updates) = 1
        /\ updates[1].id = scall.id
        /\ updates[1].partial.status = scall.arg.status
        /\ sret.st = "ok"
        /\ sret.value[1].status = scall.arg.status

\* the fields a partial entity supplies
Supplied(partial) == {f \in Fields : partial[f] # Undefined}

UpdateCallDone ==
    /\ spc = "done"
    /\ scall.op = "update"
    /\ findTask(store0, scall.id) # {}

\* C14 as stated: update(id, partial) with at least one supplied field
\* changes, in the stored row, only the supplied fields and updatedAt.
UpdateTouchesSuppliedOnly ==
    (UpdateCallDone /\ Supplied(scall.arg) # {}) =>
        \A f \in Fields \ (Supplied(scall.arg) \cup {"updatedAt"}) : After[f] = Before[f]

\* C15 as stated: update(id, partial) with no mutable field supplied issues
\* no UPDATE and returns the stored entity, every field unchanged.
UpdateOfNothingReads ==
    (UpdateCallDone /\ Supplied(scall.arg) = {}) =>
        /\ ~\E i \in 1..Len(sqls) : sqls[i] = "UPDATE"
        /\ store = store0
        /\ sret = TaskOutcome("ok", "entity", <<rowToEntity(Before, clock)>>)

\* C16 as stated: every stored entity carries the createdAt the repository
\* assigned at creation (the time of the create call), no later call changes
\* it, and updatedAt >= createdAt.
TimestampsAssignedByRepository ==
    /\ (spc = "done" /\ scall.op = "create") =>
          \A r \in store : r.createdAt = toISOString(Date(clock))
    /\ (spc = "done" /\ scall.op \in {"update", "updateStatus"}) =>
          \A r \in store0 : \A q \in store : q.id = r.id => q.createdAt = r.createdAt
    /\ \A r \in store : DateOf(r.updatedAt)[2] >= DateOf(r.createdAt)[2]

\* the call has invoked the method m of the task repository
Called(m) == \E i \in 1..Len(calls) : calls[i] = m

Sent(sql) == \E i \in 1..Len(sqls) : sqls[i] = sql

\* a task createTask must refuse: a title shorter than 3 characters, or a due
\* date that has passed
Refused(task, t) ==
    \/ task.title[2] < 3
    \/ task.dueDate[1] = "date" /\ task.dueDate[2] < t

\* no row of the table st has the id
Absent(st, id) == \A r \in st : r.id[2] # id

\* C21: a createTask whose task fails validation throws and never calls
\* repository.create; updateTask, deleteTask and updateStatus on an id that
\* findById does not find throw without calling repository.update or
\* repository.delete; in both cases no writing statement is sent and the
\* table is as it was.
FailedPreconditionWritesNothing ==
    /\ (spc = "done" /\ scall.op = "createTask" /\ Refused(scall.arg, clock)) =>
          /\ sret.st = "error"
          /\ ~Called("create")
          /\ ~Sent("INSERT")
          /\ store = store0
    /\ (/\ spc = "done"
        /\ scall.op \in {"updateTask", "deleteTask", "updateStatus"}
        /\ Absent(store0, scall.id)) =>
          /\ sret.st = "error"
          /\ ~Called("update")
          /\ ~Called("delete")
          /\ ~Sent("UPDATE")
          /\ ~Sent("DELETE")
          /\ store = store0

\* C21 witness: a createTask with a title of two characters has thrown.
FailedPreconditionWritesNothingWitness ==
    /\ spc = "done"
    /\ scall.op = "createTask"
    /\ scall.arg.title = Title(2)
    /\ sret = TaskOutcome("error", "validation", <<>>)

\* C21 witness of the absent id: a deleteTask of an id that is not stored has
\* thrown, another task being stored.
DeleteTaskAbsentWitness ==
    /\ spc = "done"
    /\ scall.op = "deleteTask"
    /\ Absent(store0, scall.id)
    /\ store0 # {}
    /\ sret = TaskOutcome("error", "notFound", <<>>)

\* C21 witness of the other side: a valid createTask has reached
\* repository.create, and a deleteTask of a stored id repository.delete.
CreateTaskWritesWitness ==
    /\ spc = "done"
    /\ scall.op = "createTask"
    /\ calls = <<"create">>
    /\ store # {}

DeleteTaskWritesWitness ==
    /\ spc = "done"
    /\ scall.op = "deleteTask"
    /\ Called("delete")
    /\ store = {}

(***************************************************************************)
(* Properties of create, delete and deleteMany.                            *)
(***************************************************************************)
\* C17 as stated: every create returns an id that no earlier create on the
\* repository has returned, rows deleted since included, and findById on the
\* returned id yields the stored entity.
CreateReturnsFreshId ==
    /\ \A id \in RowIds : issued[id] <= 1
    /\ (tpc = "done" /\ tcall.op = "create" /\ tret.st = "ok") =>
          LET created == tret.value[1]
          IN Entity(Selected(table, created.id)) = <<created>>

\* the rows of t whose id is in ids
RowsWithId(t, ids) == {r \in t : \E id \in ids : r.id = id}

Failed == \E i \in 1..Len(stmts) : stmts[i].outcome # "ok"

\* C18: deleteMany(ids) returns the number of rows that existed with an id
\* in ids, removes exactly those rows and leaves the others as they were,
\* and throws only when a statement fails, never for an absent id;
\* delete(id) returns true exactly when the row existed, and has then removed
\* it, and returns false with the table unchanged otherwise.
DeleteCountsRemovedRows ==
    (tpc = "done" /\ tcall.op \in {"delete", "deleteMany"}) =>
        LET hit == RowsWithId(table0, tcall.ids)
        IN /\ tret.st = "error" => Failed /\ table = table0 /\ committed = table0
           /\ (tret.st = "ok" /\ tcall.op = "deleteMany") =>
                 /\ tret.value = <<Cardinality(hit)>>
                 /\ table = table0 \ hit
                 /\ committed = table
           /\ (tret.st = "ok" /\ tcall.op = "delete") =>
                 /\ tret.value = <<hit # {}>>
                 /\ table = table0 \ hit
                 /\ committed = table

\* C18 witness: deleteMany of three ids on a table holding two of them has
\* returned 2.
DeleteCountsRemovedRowsWitness ==
    /\ tpc = "done"
    /\ tcall.op = "deleteMany"
    /\ Cardinality(tcall.ids) = 3
    /\ Cardinality(table0) = 2
    /\ pkKind = "integer"
    /\ tret = TxOutcome("ok", <<2>>, NoErr)
    /\ table = {}

\* C18 witness of delete: a delete of an absent id has returned false, the
\* table not empty.
DeleteAbsentWitness ==
    /\ tpc = "done"
    /\ tcall.op = "delete"
    /\ tret = TxOutcome("ok", <<FALSE>>, NoErr)
    /\ table # {}
    /\ pkKind = "integer"

\* C18 witness of delete: a delete of a stored id has returned true.
DeletePresentWitness ==
    /\ tpc = "done"
    /\ tcall.op = "delete"
    /\ tret = TxOutcome("ok", <<TRUE>>, NoErr)
    /\ Cardinality(table) = 1

(***************************************************************************)
(* Properties of findAll, findOne and the filter compiler.                 *)
(***************************************************************************)
\* {...filter, limit: n}
WithLimit(filter, n) ==
    IF \E i \in 1..Len(filter.entries) : filter.entries[i].key = "limit"
    THEN [filter EXCEPT !.entries =
             [i \in 1..Len(filter.entries) |->
                 IF filter.entries[i].key = "limit"
                 THEN [key |-> "limit", value |-> Number(n)]
                 ELSE filter.entries[i]]]
    ELSE [filter EXCEPT !.entries = Append(filter.entries, [key |-> "limit", value |-> Number(n)])]

\* the first element of a list as findOne would return it
Collapsed(list) ==
    IF list.is = "error" THEN QueryError
    ELSE IF list.rows = <<>> THEN NoneFound
    ELSE OneRow(list.rows[1])

\* C29: findOne(filter) returns the first element of findAll of the same
\* filter with limit = 1, or undefined when that list is empty, whatever
\* orderBy, orderDirection and offset the filter carries.
FindOneIsFirstOfFindAll ==
    (qpc = "done" /\ qcall.op = "findOne") =>
        qret = Collapsed(findAll(qrows, WithLimit(qcall.filter, 1)).ret)

\* The same for the filters that carry no orderBy and no offset.
FindOneIsFirstOfFindAllUnordered ==
    (/\ qpc = "done"
     /\ qcall.op = "findOne"
     /\ ~IsTruthy(Get(qcall.filter, "orderBy"))
     /\ Get(qcall.filter, "offset") \in {Undefined, Number(0)}) =>
        qret = Collapsed(findAll(qrows, WithLimit(qcall.filter, 1)).ret)

\* findOne has returned the row with the smaller status although the filter
\* asks for descending order of status.
FindOneIgnoresOrder ==
    /\ qpc = "done"
    /\ qcall.op = "findOne"
    /\ qcall.filter.entries = <<[key |-> "orderBy", value |-> String("status")],
                                [key |-> "orderDirection", value |-> String("DESC")]>>
    /\ Len(qrows) = 2
    /\ qrows[1].status < qrows[2].status
    /\ qret = OneRow(qrows[1])

\* the entries of a filter under the keys of a set, in the filter's order
Under(filter, keys) ==
    LET In(e) == e.key \in keys
    IN SelectSeq(filter.entries, In)

\* C30: for every filter object, the WHERE clause holds exactly one predicate
\* key = ? per key other than limit, offset, orderBy and orderDirection, in
\* the order of the keys, with the key's value as the parameter at the same
\* place, and no word of the clause is one of the four reserved keys; the
\* ORDER/LIMIT clause is the one of the filter reduced to its reserved keys,
\* holds OFFSET only when limit is given, and orders ASC when orderBy is given
\* without a direction.
FilterCompiled ==
    (qpc = "done" /\ qcall.filter.given) =>
        LET filter == qcall.filter
            others == Under(filter, ColumnKeys)
            eq == Positions(qsql.where, "=")
        IN /\ Cardinality(eq) = Len(others)
           /\ Cardinality(Positions(qsql.where, "?")) = Len(others)
           /\ Len(qsql.params) = Len(others)
           /\ \A k \in 1..Len(others) :
                 /\ qsql.where[Nth(eq, k) - 1] = others[k].key
                 /\ qsql.where[Nth(eq, k) + 1] = "?"
                 /\ qsql.params[k] = others[k].value
           /\ \A i \in 1..Len(qsql.where) : qsql.where[i] \notin ReservedKeys
           /\ (others = <<>>) = (qsql.where = <<>>)
           /\ qcall.op = "findAll" =>
                 /\ qsql.rest = buildOrderAndLimit([filter EXCEPT !.entries = Under(filter, ReservedKeys)])
                 /\ Positions(qsql.rest, "OFFSET") # {} => Get(filter, "limit") # Undefined
                 /\ Positions(qsql.rest, "LIMIT") # {} <=> Get(filter, "limit") # Undefined
                 /\ Positions(qsql.rest, "ORDER BY") # {} <=> IsTruthy(Get(filter, "orderBy"))
                 /\ (IsTruthy(Get(filter, "orderBy")) /\ Get(filter, "orderDirection") = Undefined) =>
                       SubSeq(qsql.rest, 1, 3) = <<"ORDER BY", Get(filter, "orderBy")[2], "ASC">>

\* C30 witness: findAll has compiled a filter with two column keys around
\* orderBy, without a direction.
FilterCompiledWitness ==
    /\ qpc = "done"
    /\ qcall.op = "findAll"
    /\ qcall.filter.entries = <<[key |-> "priority", value |-> Number(2)],
                                [key |-> "orderBy", value |-> String("status")],
                                [key |-> "status", value |-> Number(1)]>>
    /\ qsql = Statement(<<"WHERE", "priority", "=", "?", "AND", "status", "=", "?">>,
                        <<Number(2), Number(1)>>,
                        <<"ORDER BY", "status", "ASC">>)

\* C30 witness of paging: offset without limit yields no clause, offset with
\* limit yields both.
FilterCompiledPagingWitness ==
    /\ qpc = "done"
    /\ qcall.op = "findAll"
    /\ \/ /\ qcall.filter.entries = <<[key |-> "offset", value |-> Number(1)]>>
          /\ qsql = Statement(<<>>, <<>>, <<>>)
       \/ /\ qcall.filter.entries = <<[key |-> "offset", value |-> Number(1)],
                                      [key |-> "limit", value |-> Number(2)]>>
          /\ qsql = Statement(<<>>, <<>>, <<"LIMIT", "2", "OFFSET", "1">>)

(***************************************************************************)
(* Properties of the ledger against the units in effect.                   *)
(***************************************************************************)
\* the filenames the ledger holds
Recorded == {r.filename : r \in Range(ledger)}

\* C32: between calls the ledger holds exactly the units whose up has
\* completed successfully and whose down has not completed since, and up is
\* never invoked on a unit in that set.
LedgerIsUnitsInEffect ==
    /\ [](pc \in {"idle", "done"} => Recorded = inEffect)
    /\ [][(pc = "up" /\ pc' # "up") => Head(queue).filename \notin inEffect]_vars

\* migrateUp has thrown at the ledger write: the unit's up has completed, the
\* ledger does not hold it.
UpDoneNotRecorded ==
    /\ pc = "done"
    /\ ret.op = "migrateUp"
    /\ ret.st = "error"
    /\ \E f \in inEffect : f \notin Recorded
    /\ Len(events) = 2
    /\ events[2].ev = "record"

\* migrateUp is about to invoke up on a unit whose up has completed and
\* whose down has not.
UpInvokedTwice ==
    /\ pc = "up"
    /\ Head(queue).filename \in inEffect

\* migrateDown has thrown at the ledger delete: the unit's down has
\* completed, the ledger still holds it.
DownDoneStillRecorded ==
    /\ pc = "done"
    /\ ret.op = "migrateDown"
    /\ ret.st = "error"
    /\ \E f \in Recorded : f \notin inEffect

(***************************************************************************)
(* Properties of interleaved transaction(fn) calls.                        *)
(***************************************************************************)
\* a call's writes are persisted exactly when its fn succeeded
OwnOutcome(c) ==
    /\ ifn[c] = "returned" => iwrote[c] \subseteq idurable
    /\ ifn[c] # "returned" => iwrote[c] \cap idurable = {}

RolledBackByOther ==
    \E c, d \in Callers :
        /\ c # d
        /\ ipc[c] = "done" /\ ifn[c] = "returned" /\ iret[c] = "error"
        /\ iwrote[c] # {} /\ iwrote[c] \cap idurable = {}
        /\ ipc[d] = "done" /\ ifn[d] = "none"

\* A call whose fn threw has a row persisted: another call's ROLLBACK had
\* closed its transaction, so the row was written in autocommit mode.
PersistedThoughThrew ==
    \E c \in Callers :
        /\ ipc[c] = "done" /\ ifn[c] = "threw"
        /\ iwrote[c] \cap idurable # {}

(***************************************************************************)
(* Properties of concurrent updateStatus calls.                            *)
(***************************************************************************)
\* C35: with updateStatus calls running concurrently on one task, each
\* stored status is the one stored before it or a legal transition from it.
StoredStatusFollowsTable ==
    \A i \in 1..(Len(ktrail) - 1) : Legal(ktrail[i], ktrail[i + 1])

\* Two calls have both read CREATED; CANCELLED was stored, then IN_PROGRESS.
StaleTransitionStored ==
    /\ ktrail = <<"CREATED", "CANCELLED", "IN_PROGRESS">>
    /\ \E c \in Callers : kcall[c].pc = "done" /\ kcall[c].ret = "ok" /\ kcall[c].read = "CREATED"

(***************************************************************************)
(* Properties of status changes through the task service.                  *)
(***************************************************************************)
\* C36: every change of a task's stored status made by an operation of the
\* task service is a self-transition or a transition of the table.
ServiceStatusChangesLegal ==
    (/\ spc = "done"
     /\ scall.op \in {"updateTask", "updateStatus"}
     /\ findTask(store0, scall.id) # {}
     /\ findTask(store, scall.id) # {}) =>
        Legal(Before.status[1], After.status[1])

\* updateTask(id, { status: COMPLETED }) has stored COMPLETED over CREATED.
UpdateTaskSkipsTable ==
    /\ spc = "done"
    /\ scall.op = "updateTask"
    /\ sret.st = "ok"
    /\ findTask(store0, scall.id) # {}
    /\ Before.status = StatusValue("CREATED")
    /\ After.status = StatusValue("COMPLETED")

\* The changes made by updateStatus alone follow the table.
UpdateStatusChangesLegal ==
    (/\ spc = "done"
     /\ scall.op = "updateStatus"
     /\ findTask(store0, scall.id) # {}
     /\ findTask(store, scall.id) # {}) =>
        Legal(Before.status[1], After.status[1])

(***************************************************************************)
(* Properties of the handles of the connection.                            *)
(***************************************************************************)
\* C37: at most one database handle is created and not yet closed, whatever
\* calls open lazily.
AtMostOneHandle == live <= 1

\* One run() on a closed connection is pending, two handles created: the
\* second by the open() that the PRAGMA of the first open() awaits.
SecondHandleByOneCall ==
    /\ ccall = "run"
    /\ cpc = "calling"
    /\ live = 2
    /\ ~isOpen
    /\ Cardinality({i \in 1..Len(frames) : frames[i].fn = "open"}) = 2

(***************************************************************************)
(* Properties of the transition table as a graph.                          *)
(***************************************************************************)
\* the statuses a task can be brought to from those of S by updateStatus
\* calls that validateStatusTransition lets through
RECURSIVE Closure(_)
Closure(S) ==
    LET next == S \cup {n \in TaskStatus : \E c \in S : validateStatusTransition(c, n)}
    IN IF next = S THEN S ELSE Closure(next)

\* the statuses that validateStatusTransition lets a status change to
Successors(c) == {n \in TaskStatus : n # c /\ validateStatusTransition(c, n)}

\* C38: no status is terminal and from every status every other status is
\* reachable by legal transitions; so it is from the status stored for the
\* task, COMPLETED included, and COMPLETED and CANCELLED can be left again.
NoTerminalStatus ==
    /\ \A c \in TaskStatus : Successors(c) # {} /\ Closure({c}) = TaskStatus
    /\ Closure({kstatus}) = TaskStatus
    /\ "COMPLETED" \in Closure(Successors(kstatus))
    /\ Successors("COMPLETED") # {} /\ Successors("CANCELLED") # {}

\* C38 witness: one call after the other has brought the task to COMPLETED
\* and reopened it.
NoTerminalStatusWitness ==
    /\ ktrail = <<"CREATED", "IN_PROGRESS", "COMPLETED", "IN_PROGRESS">>
    /\ \E c \in Callers :
        /\ kcall[c].pc = "done" /\ kcall[c].ret = "ok" /\ kcall[c].read = "COMPLETED"
        /\ \A d \in Callers \ {c} : kcall[d].pc = "idle"

\* C38 witness of CANCELLED: a cancelled task has been brought back to
\* CREATED.
CancelledReopenedWitness ==
    /\ ktrail = <<"CREATED", "CANCELLED", "CREATED">>
    /\ \E c \in Callers : kcall[c].pc = "done" /\ kcall[c].ret = "ok" /\ kcall[c].read = "CANCELLED"

(***************************************************************************)
(* Properties of recordAccess.                                             *)
(***************************************************************************)
\* C31: a recordAccess(id) that found the memory completes successfully with
\* the stored accessCount greater than the one it read and lastAccessed set;
\* one that found no memory throws.
RecordAccessIncrements ==
    \A c \in AccessCalls :
        aproc[c].pc = "done" =>
            IF aproc[c].memory.exists
            THEN /\ aproc[c].ret = "ok"
                 /\ astore[aproc[c].id].accessCount > aproc[c].memory.accessCount
                 /\ astore[aproc[c].id].lastAccessed # Undefined
            ELSE aproc[c].ret = "notFound"

\* recordAccess on an existing memory has ended in the TypeError of
\* entityToRow, the row as it was.
RecordAccessThrows ==
    \E c \in AccessCalls :
        /\ aproc[c].pc = "done"
        /\ aproc[c].memory.exists
        /\ aproc[c].ret = "TypeError"
        /\ astore[aproc[c].id] = aproc[c].memory

\* No recordAccess ever changes a row.
RecordAccessNeverWrites ==
    \A id \in MemoryIds : astore[id].accessCount = 0 /\ astore[id].lastAccessed = Undefined

\* C34: the stored accessCount of a memory is the number of recordAccess
\* calls on it that have returned, in any interleaving.
AccessCountCountsCalls ==
    \A id \in MemoryIds :
        (astore[id].exists /\ \A c \in AccessCalls : aproc[c].id # id) =>
            astore[id].accessCount = asettled[id]

\* Two recordAccess calls on one memory have both settled, the count at 0.
TwoAccessesCountNothing ==
    \E id \in MemoryIds :
        /\ asettled[id] = 2
        /\ astore[id].accessCount = 0

(***************************************************************************)
(* Properties of units without up or down.                                 *)
(***************************************************************************)
\* the files of d that export both up and down
WellFormed(d) == {f \in d : f.hasUp /\ f.hasDown}

\* the names of the files that lack up or down
Malformed == {f.filename : f \in FileUniverse \ WellFormed(FileUniverse)}

\* C28: a unit that lacks up or down is never loaded, its up and down are
\* never invoked, it is never recorded in or removed from the ledger, it has
\* no ledger entry, status never lists it as pending or applied, no error
\* names it, and a call that has loaded the directory works on the units it
\* would have loaded without the malformed files.
MalformedUnitsSkipped ==
    /\ \A i \in 1..Len(migrations) : migrations[i].filename \notin Malformed
    /\ \A i \in 1..Len(events) : events[i].filename \notin Malformed
    /\ \A i \in 1..Len(queue) : queue[i].filename \notin Malformed
    /\ \A i \in 1..Len(ledger) : ledger[i].filename \notin Malformed
    /\ \A i \in 1..Len(ret.pending) : ret.pending[i].filename \notin Malformed
    /\ \A i \in 1..Len(ret.applied) : ret.applied[i].filename \notin Malformed
    /\ \A i \in 1..Len(ret.names) : ret.names[i] \notin Malformed
    /\ pc \in {"up", "record", "down", "remove"} =>
          migrations = loadMigrations(WellFormed(disk))
    /\ (pc = "done" /\ ret.op = "status" /\ ret.st = "ok") =>
          ret.pending = getPendingMigrations(loadMigrations(WellFormed(disk)), ledger)

\* C28 witness: with a unit that exports no down and a unit that exports no
\* up in the directory, migrateUp has applied the two well-formed units and
\* returned.
MalformedUnitsSkippedWitness ==
    /\ pc = "done"
    /\ ret = Returned("migrateUp")
    /\ \A n \in Malformed : \E f \in disk : f.filename = n
    /\ Len(events) = 4
    /\ Len(ledger) = 2

\* C28 witness of status: with nothing applied and a malformed unit among
\* the files, status has listed one pending unit.
MalformedNotPendingWitness ==
    /\ pc = "done"
    /\ ret.op = "status"
    /\ ret.st = "ok"
    /\ Cardinality(disk) = 2
    /\ \E f \in disk : f.filename \in Malformed
    /\ Len(ret.pending) = 1

(***************************************************************************)
(* Properties of update(id, entity).                                       *)
(***************************************************************************)
\* C22 as stated: update never returns an absent entity; when the row of
\* the id does not exist at the re-read, update fails with the
\* post-update-fetch error.
UpdateNeverReturnsAbsent ==
    (upc = "done" /\ Selected(urows, ucall.id) = {}) =>
        uret = TxOutcome("error", <<>>, Err("fetch", 0))

\* With at least one column to write, update on a row that is absent at the
\* re-read does fail with the post-update-fetch error.
UpdateOfColumnsFailsWhenAbsent ==
    (upc = "done" /\ Columns(ucall) # {} /\ Selected(urows, ucall.id) = {}) =>
        uret = TxOutcome("error", <<>>, Err("fetch", 0))

\* An interleaved delete has removed the row between the UPDATE and the
\* re-read, and update has thrown.
UpdateVanishedWitness ==
    /\ upc = "done"
    /\ ustmts = <<"UPDATE", "SELECT">>
    /\ uret.st = "error"
    /\ Cardinality(urows) = 1

(***************************************************************************)
(* Properties of findSimilar.                                              *)
(***************************************************************************)
\* the set of lower-cased non-empty word tokens of a text
TokenSet(text) == Range(Tokens(text))

\* |Q \cap M| / |Q \cup M|, and 0 when both sets are empty
Jaccard(Q, M) ==
    IF Q \cup M = {} THEN <<0, 1>> ELSE <<Cardinality(Q \cap M), Cardinality(Q \cup M)>>

SameFraction(a, b) == a[1] * b[2] = b[1] * a[2]

\* the threshold and the limit in force: the supplied one, else 0.5 and 10
SuppliedThreshold ==
    IF fcall.options.threshold = NoNumber THEN <<1, 2>> ELSE fcall.options.threshold

SuppliedLimit == IF fcall.options.limit = NoNumber THEN 10 ELSE fcall.options.limit[1]

\* C23 as stated: every memory findSimilar returns has token-set Jaccard
\* similarity to the query at least the supplied threshold (0.5 when none is
\* supplied), and the similarity reported with it equals that Jaccard value
\* and lies in [0, 1].
SimilarityIsJaccard ==
    fpc = "done" =>
        \A i \in 1..Len(fret) :
            LET J == Jaccard(TokenSet(fcall.content), TokenSet(fret[i].memory.content))
            IN /\ AtLeast(J, SuppliedThreshold)
               /\ SameFraction(fret[i].similarity, J)
               /\ fret[i].similarity[1] >= 0
               /\ fret[i].similarity[1] <= fret[i].similarity[2]

\* the candidates that pass the threshold, with the similarity findSimilar
\* computes for them
Passing ==
    LET found == Candidates(memories, fcall.options.context)
    IN {[memory |-> found[i],
         similarity |-> Similarity(Tokens(fcall.content), Tokens(found[i].content))] :
            i \in {k \in DOMAIN found :
                      AtLeast(Similarity(Tokens(fcall.content), Tokens(found[k].content)),
                              SuppliedThreshold)}}

\* C24 as stated: the list findSimilar returns is sorted strictly descending
\* by similarity, has at most limit entries (10 when no limit is supplied),
\* and holds the highest-similarity candidates among those that pass the
\* threshold.
ResultsSortedAndLimited ==
    fpc = "done" =>
        /\ \A i, j \in 1..Len(fret) :
              i < j => ~AtLeast(fret[j].similarity, fret[i].similarity)
        /\ Len(fret) <= SuppliedLimit
        /\ Range(fret) \subseteq Passing
        /\ Len(fret) < SuppliedLimit => Range(fret) = Passing
        /\ \A r \in Passing \ Range(fret) :
              \A i \in 1..Len(fret) : AtLeast(fret[i].similarity, r.similarity)

(***************************************************************************)
(* Properties of entityToRow and rowToEntity.                              *)
(***************************************************************************)
\* C25 as stated: rowToEntity(entityToRow(E)) reproduces every field of E:
\* dates, JSON-encoded fields and scalars are equal, and an optional field
\* absent in E is absent in the result.
RoundTripReproducesAll ==
    rpc = "entity" => rback = rentity

\* the structured fields of the entity hold JSON values only
JsonOnly(entity) ==
    \A f \in DOMAIN entity : entity[f][1] \in {"object", "array"} => entity[f][2] \in {0, 1}

\* C25 amended: rowToEntity(entityToRow(E)) has the fields of E; every field
\* other than updatedAt whose value holds no Date and no undefined inside a
\* structured value is equal to E's, an optional field absent in E is absent
\* in the result; updatedAt is the time of the conversion, whatever E's was.
RoundTripReproducesAllButUpdatedAt ==
    rpc = "entity" =>
        /\ DOMAIN rback = DOMAIN rentity
        /\ \A f \in DOMAIN rentity \ {"updatedAt"} :
              (rentity[f][1] \in {"object", "array"} => rentity[f][2] \in {0, 1})
                  => rback[f] = rentity[f]
        /\ rback.updatedAt = DateOf(rrow.updatedAt)
        /\ \E t \in Times : t <= rnow /\ rback.updatedAt = Date(t)

\* C25 witness: a memory without lastAccessed, last updated at time 1 and
\* converted at time 2, has come back with every other field as it was and
\* lastAccessed absent.
RoundTripReproducesAllButUpdatedAtWitness ==
    /\ rpc = "entity"
    /\ rkind = "Memory"
    /\ JsonOnly(rentity)
    /\ rentity.lastAccessed = Undefined
    /\ rback.lastAccessed = Undefined
    /\ rentity.updatedAt = Date(1)
    /\ rback.updatedAt = Date(2)
    /\ rback.timestamp = Date(3)
    /\ rback.tags = Tags(1)

\* a metadata map holding a Date has come back holding a text
RoundTripDateInMetadataWitness ==
    /\ rpc = "entity"
    /\ rentity.metadata = Metadata(2)
    /\ rback.metadata = Metadata(4)
    /\ rback.updatedAt = rentity.updatedAt

(***************************************************************************)
(* Properties of markAs.                                                   *)
(***************************************************************************)
\* the stage of a status in the lifecycle
Stage(status) ==
    CASE status = "PENDING" -> 0
      [] status = "DELIVERED" -> 1
      [] OTHER -> 2

MarkAsForwardThrowsWitness ==
    /\ npc = "done"
    /\ ncall.status = "DELIVERED"
    /\ nstore[ncall.id].status = "PENDING"
    /\ nret = "TypeError"

\* markAs never changes the table.
MarkAsNeverWrites ==
    [][npc = "idle" /\ npc' = "done" => nstore' = nstore]_vars

(***************************************************************************)
(* Properties of transaction() within transaction().                       *)
(***************************************************************************)
\* C27 as stated: a transaction() invoked while a transaction started by
\* the combinator is active is rejected without a second BEGIN being
\* issued: no BEGIN is ever sent while the transaction is open.
ReentrantRejectedWithoutBegin ==
    \A i \in 1..Len(xlog) : xlog[i] # [sql |-> "BEGIN", outcome |-> "within"]

\* What the second BEGIN leads to: the inner call's catch block has rolled
\* the outer transaction back, the outer call's own ROLLBACK has failed.
OuterRolledBackByInner ==
    /\ xret = "error"
    /\ Len(xlog) >= 4
    /\ xlog[Len(xlog) - 2] = [sql |-> "BEGIN", outcome |-> "within"]
    /\ xlog[Len(xlog) - 1] = [sql |-> "ROLLBACK", outcome |-> "ok"]
    /\ xlog[Len(xlog)] = [sql |-> "ROLLBACK", outcome |-> "fail"]

(***************************************************************************)
(* Properties of the connection.                                           *)
(***************************************************************************)
\* C19 as stated: a call to open(), or to run/get/all/beginTransaction,
\* made on a closed connection leads to the connection being open, with WAL
\* mode and foreign keys enabled, unless the environment makes a step fail.
LazyOpenCompletes ==
    (cpc = "calling" /\ ccall # "close" /\ ~isOpen)
        ~> (envFailed \/ (isOpen /\ pragmas = {"PRAGMA journal_mode", "PRAGMA foreign_keys"}))

\* C20 as stated, for close(): once close() has returned the connection is
\* not open and holds no handle, every handle that was created is released.
CloseReleasesHandle ==
    (cpc = "done" /\ ccall = "close" /\ cret = "ok") =>
        /\ ~isOpen
        /\ db = "null"
        /\ live = 0

====
